---- MODULE Spec2Model ----
(***************************************************************************)
(* Fact Checker browser extension: the multi-backend background script     *)
(* (initiateFactCheck, the backend clients, aggregateResults, parseResult, *)
(* extractSources) and the content script that displays the result         *)
(* (message listener, parseResult, linkifyReferences, updateContainer).    *)
(*                                                                         *)
(* JavaScript strings are modelled as sequences of tokens.  Every          *)
(* character the code inspects (colon, newline, space, brackets, dot,      *)
(* comma, digits, percent, minus) is a token of its own; a run of other    *)
(* characters that the code never looks into (a word, a title, a URL) is   *)
(* one token.                                                              *)
(***************************************************************************)
EXTENDS Integers, Sequences, FiniteSets, TLC

(***************************************************************************)
(* Bounds of the model.                                                    *)
(***************************************************************************)
MaxSources == 2
MaxBlocks == 3
MaxLines == 2

(***************************************************************************)
(* Strings.                                                                *)
(***************************************************************************)
NL == "\n"
SP == " "
Digits == {"0", "1", "2", "3", "4", "5", "6", "7", "8", "9"}
Whitespace == {SP, NL}

DigitVal(d) ==
  CASE d = "0" -> 0 [] d = "1" -> 1 [] d = "2" -> 2 [] d = "3" -> 3
    [] d = "4" -> 4 [] d = "5" -> 5 [] d = "6" -> 6 [] d = "7" -> 7
    [] d = "8" -> 8 [] d = "9" -> 9

DigitChar(n) ==
  CASE n = 0 -> "0" [] n = 1 -> "1" [] n = 2 -> "2" [] n = 3 -> "3"
    [] n = 4 -> "4" [] n = 5 -> "5" [] n = 6 -> "6" [] n = 7 -> "7"
    [] n = 8 -> "8" [] n = 9 -> "9"

\* s.slice(from) with 1-based from: the tokens from position from to the end.
Drop(s, from) == IF from > Len(s) THEN << >> ELSE SubSeq(s, from, Len(s))

\* s.slice(0, n): the first n tokens.
Take(s, n) == IF n <= 0 THEN << >> ELSE SubSeq(s, 1, IF n > Len(s) THEN Len(s) ELSE n)

\* String.prototype.startsWith
StartsWith(s, prefix) ==
  /\ Len(prefix) <= Len(s)
  /\ SubSeq(s, 1, Len(prefix)) = prefix

\* Position of the first occurrence of the non-empty string sep in s at or
\* after position from, 0 when there is none (String.prototype.indexOf).
RECURSIVE IndexOf(_, _, _)
IndexOf(s, sep, from) ==
  IF from + Len(sep) - 1 > Len(s) THEN 0
  ELSE IF SubSeq(s, from, from + Len(sep) - 1) = sep THEN from
  ELSE IndexOf(s, sep, from + 1)

\* String.prototype.includes
Includes(s, sub) == IndexOf(s, sub, 1) # 0

\* String.prototype.split with a non-empty string separator.
RECURSIVE Split(_, _)
Split(s, sep) ==
  LET i == IndexOf(s, sep, 1)
  IN IF i = 0 THEN << s >>
     ELSE << Take(s, i - 1) >> \o Split(Drop(s, i + Len(sep)), sep)

\* Array.prototype.join
RECURSIVE Join(_, _)
Join(parts, sep) ==
  IF parts = << >> THEN << >>
  ELSE IF Len(parts) = 1 THEN parts[1]
  ELSE parts[1] \o sep \o Join(Tail(parts), sep)

RECURSIVE TrimLeft(_)
TrimLeft(s) ==
  IF s # << >> /\ Head(s) \in Whitespace THEN TrimLeft(Tail(s)) ELSE s

RECURSIVE TrimRight(_)
TrimRight(s) ==
  IF s # << >> /\ s[Len(s)] \in Whitespace
  THEN TrimRight(SubSeq(s, 1, Len(s) - 1)) ELSE s

\* String.prototype.trim
Trim(s) == TrimRight(TrimLeft(s))

\* String.prototype.replace with a string pattern: the first occurrence only.
ReplaceFirst(s, pat, by) ==
  LET i == IndexOf(s, pat, 1)
  IN IF i = 0 THEN s ELSE Take(s, i - 1) \o by \o Drop(s, i + Len(pat))

\* Number.prototype.toString for an integer.
RECURSIVE NatToString(_)
NatToString(n) ==
  IF n < 10 THEN << DigitChar(n) >>
  ELSE NatToString(n \div 10) \o << DigitChar(n % 10) >>

IntToString(n) == IF n < 0 THEN << "-" >> \o NatToString(0 - n) ELSE NatToString(n)

\* Length of the run of tokens of the set cls that starts at position i.
RECURSIVE RunLen(_, _, _)
RunLen(s, i, cls) ==
  IF i > Len(s) \/ s[i] \notin cls THEN 0 ELSE 1 + RunLen(s, i + 1, cls)

RECURSIVE DigitsValue(_, _)
DigitsValue(ds, acc) ==
  IF ds = << >> THEN acc ELSE DigitsValue(Tail(ds), acc * 10 + DigitVal(Head(ds)))

\* An optional value (null, undefined or NaN against a real value) is a
\* sequence of length 0 or 1.
None == << >>
Some(v) == << v >>

\* parseInt(s): leading white space skipped, an optional sign, then the
\* longest run of digits; NaN (None) when there is no digit there.
parseInt(s) ==
  LET t == TrimLeft(s)
      neg == t # << >> /\ Head(t) = "-"
      u == IF t # << >> /\ Head(t) \in {"-", "+"} THEN Tail(t) ELSE t
      n == RunLen(u, 1, Digits)
  IN IF n = 0 THEN None
     ELSE IF neg THEN Some(0 - DigitsValue(Take(u, n), 0))
     ELSE Some(DigitsValue(Take(u, n), 0))

isNaN(x) == x = None

\* Math.floor(x / 2): the half is dropped instead of rounded up.
RoundHalfDown(x) == x \div 2

\* Math.round(x / 2) for an integer x: halves round towards +infinity.
RoundHalf(x) == (x + 1) \div 2

SetMin(S) == CHOOSE x \in S : \A y \in S : x <= y

(***************************************************************************)
(* The report parser of the background script.                             *)
(***************************************************************************)
NA == << "N/A" >>
NoFactCheck == << "No fact check provided." >>
NoContext == << "No context provided." >>
Placeholder == << "#" >>

SourcesLabel == << "Sources", ":" >>
TruthLabel == << "Truth", ":" >>
FactCheckLabel == << "Fact Check", ":" >>
ContextLabel == << "Context", ":" >>

\* A report whose absent narratives are empty strings.
DefaultDataNoText ==
  [truthPercentage |-> NA, factCheck |-> << >>, context |-> << >>, sources |-> << >>]

DefaultData ==
  [truthPercentage |-> NA, factCheck |-> NoFactCheck,
   context |-> NoContext, sources |-> << >>]

\* line.match(/(\d+)\.\s+(.+)/) tried at start position i: the digits, a dot,
\* white space (greedy, giving back one token when nothing follows it) and
\* the rest of the line.  None when the pattern does not match at i.
LineMatchAt(line, i) ==
  LET n == RunLen(line, i, Digits)
      j == i + n
      k == RunLen(line, j + 1, Whitespace)
  IN IF n = 0 \/ j > Len(line) \/ line[j] # "." \/ k = 0 THEN None
     ELSE IF j + 1 + k <= Len(line)
          THEN Some([index |-> SubSeq(line, i, j - 1), content |-> Drop(line, j + 1 + k)])
     ELSE IF k >= 2
          THEN Some([index |-> SubSeq(line, i, j - 1), content |-> << line[Len(line)] >>])
     ELSE None

\* line.match(/^(\d+)\.\s+(.+)/): a match at the start of the line only.
LineMatchAnchored(line) == IF line = << >> THEN None ELSE LineMatchAt(line, 1)

\* line.match(/(\d+)\.\s+(.+)/): the leftmost match.
LineMatch(line) ==
  LET starts == {i \in 1..Len(line) : LineMatchAt(line, i) # None}
  IN IF starts = {} THEN None ELSE LineMatchAt(line, SetMin(starts))

\* content.match(/\[(.+?)\]\((.+?)\)/): leftmost "[", then the shortest title
\* and the shortest url that let the whole pattern match.
UrlMatch(content) ==
  LET L == Len(content)
      Closers(b) == {c \in (b + 3)..L : content[c] = ")"}
      Mids(a) == {b \in (a + 2)..(L - 2) :
                    content[b] = "]" /\ content[b + 1] = "(" /\ Closers(b) # {}}
      Opens == {a \in 1..L : content[a] = "[" /\ Mids(a) # {}}
  IN IF Opens = {} THEN None
     ELSE LET a == SetMin(Opens)
              b == SetMin(Mids(a))
              c == SetMin(Closers(b))
          IN Some([title |-> SubSeq(content, a + 1, b - 1),
                   url |-> SubSeq(content, b + 2, c - 1)])

\* The body of the forEach of extractSources: one source line.
SourceOfLine(line) ==
  LET match == LineMatch(line)
  IN IF match = None THEN << >>
     ELSE LET urlMatch == UrlMatch(match[1].content)
          IN IF urlMatch # None
             THEN << [index |-> match[1].index, title |-> urlMatch[1].title,
                      url |-> urlMatch[1].url] >>
             ELSE << [index |-> match[1].index, title |-> match[1].content,
                      url |-> Placeholder] >>

RECURSIVE SourcesOfLines(_)
SourcesOfLines(lines) ==
  IF lines = << >> THEN << >>
  ELSE SourceOfLine(Head(lines)) \o SourcesOfLines(Tail(lines))

\* extractSources(section, data): the sources pushed onto data.sources.
extractSources(section) == SourcesOfLines(Tail(Split(section, << NL >>)))

\* The body of the forEach of parseResult: one block, with the current
\* section and the report so far in st.
ParseSection(st, section) ==
  IF StartsWith(section, SourcesLabel)
  THEN [cur |-> "sources",
        data |-> [st.data EXCEPT !.sources = @ \o extractSources(section)]]
  ELSE IF StartsWith(section, TruthLabel)
  THEN [cur |-> "truth",
        data |-> [st.data EXCEPT !.truthPercentage = Trim(Split(section, << ":" >>)[2])]]
  ELSE IF StartsWith(section, FactCheckLabel)
  THEN [cur |-> "factCheck",
        data |-> [st.data EXCEPT
                    !.factCheck = Trim(Join(Tail(Split(section, << ":" >>)), << ":" >>))]]
  ELSE IF StartsWith(section, ContextLabel)
  THEN [cur |-> "context",
        data |-> [st.data EXCEPT
                    !.context = Trim(Join(Tail(Split(section, << ":" >>)), << ":" >>))]]
  ELSE IF st.cur = "factCheck"
  THEN [st EXCEPT !.data.factCheck = @ \o << SP >> \o Trim(section)]
  ELSE IF st.cur = "context"
  THEN [st EXCEPT !.data.context = @ \o << SP >> \o Trim(section)]
  ELSE st

RECURSIVE ParseSections(_, _)
ParseSections(st, sections) ==
  IF sections = << >> THEN st
  ELSE ParseSections(ParseSection(st, Head(sections)), Tail(sections))

\* The walk over the lines instead of the blank-line-separated blocks.
ParseBlocksOnNewline(text) ==
  ParseSections([cur |-> "", data |-> DefaultData], Split(text, << NL >>)).data

\* The walk over the blocks that both parsers share.
ParseBlocks(text) ==
  ParseSections([cur |-> "", data |-> DefaultData], Split(text, << NL, NL >>)).data

\* A JavaScript value that is null, undefined or the empty string.
Falsy(r) == r = None \/ r[1] = << >>

\* parseResult of the background script; result is an optional string.
parseResult(result) ==
  IF Falsy(result) THEN DefaultData ELSE ParseBlocks(result[1])

(***************************************************************************)
(* The reconciler of the background script.                                *)
(***************************************************************************)
NoResults == << "No results available from either API." >>

\* The duplicate test with the wrong field of the existing entry compared.
UrlExistsByTitle(combined, url) == \E i \in 1..Len(combined) : combined[i].title = url

\* combinedSources.some(source => source.url === groqSource.url)
UrlExists(combined, url) == \E i \in 1..Len(combined) : combined[i].url = url

\* The forEach over groqData.sources, on the list combined so far.
RECURSIVE AppendNew(_, _)
AppendNew(combined, groqSources) ==
  IF groqSources = << >> THEN combined
  ELSE LET groqSource == Head(groqSources)
       IN IF UrlExists(combined, groqSource.url)
          THEN AppendNew(combined, Tail(groqSources))
          ELSE AppendNew(
                 Append(combined, [index |-> IntToString(Len(combined) + 1),
                                   title |-> groqSource.title,
                                   url |-> groqSource.url]),
                 Tail(groqSources))

combineSources(perplexitySources, groqSources) ==
  AppendNew(perplexitySources, groqSources)

averageTruth(perplexityData, groqData) ==
  IF perplexityData.truthPercentage # NA /\ groqData.truthPercentage # NA
  THEN LET perplexityTruth == parseInt(perplexityData.truthPercentage)
           groqTruth == parseInt(groqData.truthPercentage)
       IN IF ~isNaN(perplexityTruth) /\ ~isNaN(groqTruth)
          THEN IntToString(RoundHalf(perplexityTruth[1] + groqTruth[1])) \o << "%" >>
          ELSE NA
  ELSE IF perplexityData.truthPercentage # NA THEN perplexityData.truthPercentage
  ELSE IF groqData.truthPercentage # NA THEN groqData.truthPercentage
  ELSE NA

\* combinedSources.map((source, i) => `${i + 1}. [${source.title}](${source.url})`)
SourceLines(combined) ==
  [i \in 1..Len(combined) |->
     IntToString(i) \o << ".", SP, "[" >> \o combined[i].title
       \o << "]", "(" >> \o combined[i].url \o << ")" >>]

PerplexityTag == << "Fact Check", SP, "(", "Perplexity", ")" >>
GroqTag == << "Fact Check", SP, "(", "Groq", ")" >>
AdditionalTag == << "Additional", SP, "Context" >>

\* The template string that aggregateResults returns.
formatAggregated(combined, avgTruth, perplexityData, groqData) ==
  << "Sources", ":", NL >> \o Join(SourceLines(combined), << NL >>)
    \o << NL, NL, "Truth", ":", SP >> \o avgTruth
    \o << NL, NL >> \o PerplexityTag \o << ":", SP >> \o perplexityData.factCheck
    \o << NL, NL >> \o GroqTag \o << ":", SP >> \o groqData.factCheck
    \o << NL, NL, "Context", ":", SP >> \o perplexityData.context
    \o << NL, NL >> \o AdditionalTag \o << ":", SP >> \o groqData.context

\* aggregateResults with the single-result returns left out: a merge is
\* attempted only when both results are there.
aggregateResultsBothOnly(perplexityResult, groqResult) ==
  IF Falsy(perplexityResult) \/ Falsy(groqResult) THEN NoResults
  ELSE LET perplexityData == parseResult(perplexityResult)
           groqData == parseResult(groqResult)
       IN formatAggregated(
            combineSources(perplexityData.sources, groqData.sources),
            averageTruth(perplexityData, groqData),
            perplexityData, groqData)

\* aggregateResults(perplexityResult, groqResult): the text sent to the page.
aggregateResults(perplexityResult, groqResult) ==
  IF Falsy(perplexityResult) /\ ~Falsy(groqResult) THEN groqResult[1]
  ELSE IF ~Falsy(perplexityResult) /\ Falsy(groqResult) THEN perplexityResult[1]
  ELSE IF Falsy(perplexityResult) /\ Falsy(groqResult) THEN NoResults
  ELSE LET perplexityData == parseResult(perplexityResult)
           groqData == parseResult(groqResult)
       IN formatAggregated(
            combineSources(perplexityData.sources, groqData.sources),
            averageTruth(perplexityData, groqData),
            perplexityData, groqData)

(***************************************************************************)
(* The content script: citation linker, parser and result box.             *)
(***************************************************************************)
\* The text matched by /\[(\d+(?:,\s*\d+)*)\]/ at position i ends at the
\* position returned; 0 when the pattern does not match at i.  j is the
\* position after the digits read so far.
RECURSIVE GroupTail(_, _)
GroupTail(text, j) ==
  IF j > Len(text) THEN 0
  ELSE IF text[j] = "]" THEN j
  ELSE IF text[j] # "," THEN 0
  ELSE LET k == j + 1 + RunLen(text, j + 1, Whitespace)
           n == RunLen(text, k, Digits)
       IN IF n = 0 THEN 0 ELSE GroupTail(text, k + n)

\* The text matched by /\[(.+?)\]/ at position i: any bracket group.
CitationEndAnyGroup(text, i) ==
  IF text[i] # "[" THEN 0
  ELSE LET closers == {j \in (i + 2)..Len(text) : text[j] = "]"}
       IN IF closers = {} THEN 0 ELSE SetMin(closers)

CitationEnd(text, i) ==
  IF text[i] # "[" THEN 0
  ELSE LET n == RunLen(text, i + 1, Digits)
       IN IF n = 0 THEN 0 ELSE GroupTail(text, i + 1 + n)

\* p1.split(',').map(s => s.trim())
CitedIndices(p1) ==
  LET parts == Split(p1, << "," >>)
  IN [k \in 1..Len(parts) |-> Trim(parts[k])]

\* sources.find(s => s.index === index): the first source with that label.
FindSource(sources, index) ==
  LET hits == {k \in 1..Len(sources) : sources[k].index = index}
  IN IF hits = {} THEN None ELSE Some(sources[SetMin(hits)])

AnchorOpen == "<a href=\""
AnchorMid == "\" target=\"_blank\">"
AnchorClose == "</a>"

\* The callback of indices.map in linkifyReferences.
LinkOf(sources, index) ==
  LET source == FindSource(sources, index)
  IN IF source # None
     THEN << AnchorOpen >> \o source[1].url \o << AnchorMid, "[" >> \o index
            \o << "]", AnchorClose >>
     ELSE << "[" >> \o index \o << "]" >>

\* The replacement that links a group only when every index has a source.
LinkGroupAllOrNothing(sources, p1) ==
  LET indices == CitedIndices(p1)
  IN IF \A k \in 1..Len(indices) : FindSource(sources, indices[k]) # None
     THEN Join([k \in 1..Len(indices) |-> LinkOf(sources, indices[k])], << ",", SP >>)
     ELSE << "[" >> \o p1 \o << "]" >>

\* The replacement of one citation group whose inside is p1.
LinkGroup(sources, p1) ==
  LET indices == CitedIndices(p1)
  IN Join([k \in 1..Len(indices) |-> LinkOf(sources, indices[k])], << ",", SP >>)

\* text.replace(/\[(\d+(?:,\s*\d+)*)\]/g, ...) from position i on.
RECURSIVE LinkifyFrom(_, _, _)
LinkifyFrom(text, sources, i) ==
  IF i > Len(text) THEN << >>
  ELSE LET e == CitationEnd(text, i)
       IN IF e = 0 THEN << text[i] >> \o LinkifyFrom(text, sources, i + 1)
          ELSE LinkGroup(sources, SubSeq(text, i + 1, e - 1))
                 \o LinkifyFrom(text, sources, e + 1)

linkifyReferences(text, sources) == LinkifyFrom(text, sources, 1)

\* The labels cited in text: every index of every citation group.
RECURSIVE CitedFrom(_, _)
CitedFrom(text, i) ==
  IF i > Len(text) THEN {}
  ELSE LET e == CitationEnd(text, i)
       IN IF e = 0 THEN CitedFrom(text, i + 1)
          ELSE LET indices == CitedIndices(SubSeq(text, i + 1, e - 1))
               IN {indices[k] : k \in 1..Len(indices)} \cup CitedFrom(text, e + 1)

CitedLabels(text) == CitedFrom(text, 1)

\* parseResult of the content script: the walk over the blocks, then the
\* citations of both narratives linked against the parsed sources.  The
\* argument is an optional string; on undefined result.split throws (None).
contentParseResult(result) ==
  IF result = None THEN None
  ELSE LET data == ParseBlocks(result[1])
       IN Some([data EXCEPT
                  !.factCheck = linkifyReferences(data.factCheck, data.sources),
                  !.context = linkifyReferences(data.context, data.sources)])

\* updateContainer(data): what the result box shows.  Each narrative is a
\* sequence of (heading, paragraph) pairs; None when a split finds no
\* second part and .trim() throws.
updateContainer(data) ==
  LET hasMultipleResults ==
        /\ Includes(data.factCheck, << "(", "Perplexity", ")" >>)
        /\ Includes(data.factCheck, << "(", "Groq", ")" >>)
      groqParts == Split(data.factCheck, GroqTag \o << ":" >>)
      addParts == Split(data.context, AdditionalTag \o << ":" >>)
  IN IF ~hasMultipleResults
     THEN Some([truthPercentage |-> data.truthPercentage,
                factCheck |-> << << FactCheckLabel, data.factCheck >> >>,
                context |-> << << ContextLabel, data.context >> >>,
                sources |-> data.sources])
     ELSE IF Len(groqParts) < 2 THEN None
     ELSE LET perplexityFactCheck ==
                Trim(ReplaceFirst(Split(data.factCheck, GroqTag)[1],
                                  PerplexityTag \o << ":" >>, << >>))
              groqFactCheck == Trim(groqParts[2])
              factCheckContent ==
                << << PerplexityTag \o << ":" >>, perplexityFactCheck >>,
                   << GroqTag \o << ":" >>, groqFactCheck >> >>
          IN IF ~Includes(data.context, AdditionalTag)
             THEN Some([truthPercentage |-> data.truthPercentage,
                        factCheck |-> factCheckContent,
                        context |-> << << ContextLabel, data.context >> >>,
                        sources |-> data.sources])
             ELSE IF Len(addParts) < 2 THEN None
             ELSE Some([truthPercentage |-> data.truthPercentage,
                        factCheck |-> factCheckContent,
                        context |->
                          << << ContextLabel,
                                Trim(Split(data.context, AdditionalTag)[1]) >>,
                             << AdditionalTag \o << ":" >>, Trim(addParts[2]) >> >>,
                        sources |-> data.sources])

ErrorContext == << "An error occurred while processing your request." >>

\* The data object that displayError builds from the message.
ErrorData(message) ==
  [truthPercentage |-> NA, factCheck |-> message,
   context |-> ErrorContext, sources |-> << >>]

(***************************************************************************)
(* The answers a backend can give.                                         *)
(***************************************************************************)
EntryA == << "[", "A", "]", "(", "u1", ")" >>
EntryB == << "[", "B", "]", "(", "u2", ")" >>
EntryC == << "C" >>
EntryD == << "D" >>
Entries == {EntryA, EntryB, EntryC}

\* The lists of entries of a Sources section: up to MaxSources entries, the
\* same entry possibly twice.
EntryLists == UNION {[1..n -> Entries] : n \in 0..MaxSources}

RECURSIVE SourceSection(_, _)
SourceSection(entries, label) ==
  IF entries = << >> THEN << >>
  ELSE << NL >> \o IntToString(label) \o << ".", SP >> \o Head(entries)
         \o SourceSection(Tail(entries), label + 1)

\* A narrative that cites the first label, and one that cites the first two.
FactCheckText(label) == << "x", SP, "[" >> \o IntToString(label) \o << "]" >>
ContextText(label) ==
  << "y", SP, "[" >> \o IntToString(label) \o << ",", SP >>
    \o IntToString(label + 1) \o << "]" >>

\* A report in the format both system prompts ask for.
Report(entries, label, truth) ==
  SourcesLabel \o SourceSection(entries, label)
    \o << NL, NL >> \o TruthLabel \o << SP >> \o truth
    \o << NL, NL >> \o FactCheckLabel \o << SP >> \o FactCheckText(label)
    \o << NL, NL >> \o ContextLabel \o << SP >> \o ContextText(label)

Truth80 == << "8", "0", "%" >>
Truth55 == << "5", "5", "%" >>
Truth60 == << "6", "0", "%" >>
Truth150 == << "1", "5", "0", "%" >>
TruthMinus5 == << "-", "5", "%" >>
TruthHigh == << "high" >>
OtherTruths == {Truth55, Truth60, Truth150, TruthMinus5, NA, TruthHigh}

\* The contents a backend answers with: every list of entries labelled
\* upwards from 1, the one-entry lists labelled 3, other truth values, the
\* empty string and a text without any label.
Texts ==
  {Report(e, 1, Truth80) : e \in EntryLists}
    \cup {Report(<< e >>, 3, Truth80) : e \in Entries}
    \cup {Report(<< EntryA >>, 1, t) : t \in OtherTruths}
    \cup {Report(<< EntryD >>, 1, Truth80)}
    \cup {<< >>, << "sorry" >>}

(***************************************************************************)
(* Answers that exercise the parser: sequences of blocks joined by blank   *)
(* lines, reports with any subset of the four sections, Sources sections   *)
(* with lines of several shapes, and narratives with bracketed markers.    *)
(***************************************************************************)
BlockSources == SourcesLabel \o << NL, "1", ".", SP >> \o EntryA
BlockTruth == TruthLabel \o << SP >> \o Truth80
BlockTruthColon == TruthLabel \o << SP >> \o Truth80 \o << ":", SP, "likely" >>
BlockFactCheck == FactCheckLabel \o << SP, "f", ":", SP, "g" >>
BlockContext == ContextLabel \o << SP, "c" >>
BlockEmptyBody == ContextLabel
BlockPlain == << SP, "more", SP >>
BlockPool == {BlockSources, BlockTruth, BlockTruthColon, BlockFactCheck,
              BlockContext, BlockEmptyBody, BlockPlain}

BlockSeqs == UNION {[1..n -> BlockPool] : n \in 0..MaxBlocks}
JoinBlocks(blocks) == Join(blocks, << NL, NL >>)

\* The four sections in the order of the system prompt, and reversed.
SectionNames == << "sources", "truth", "factCheck", "context" >>
SectionOrders == {SectionNames, << "context", "factCheck", "truth", "sources" >>}
SectionBlock(name) ==
  CASE name = "sources" -> SourcesLabel \o SourceSection(<< EntryA, EntryC >>, 1)
    [] name = "truth" -> TruthLabel \o << SP >> \o Truth80
    [] name = "factCheck" -> FactCheckLabel \o << SP >> \o FactCheckText(1)
    [] name = "context" -> ContextLabel \o << SP >> \o ContextText(1)

\* The report with the sections of the set present, in the given order.
SubsetReport(present, order) ==
  JoinBlocks(SelectSeq([k \in 1..Len(order) |-> SectionBlock(order[k])],
                       LAMBDA b : \E name \in present : b = SectionBlock(name)))

SubsetReports ==
  {SubsetReport(present, order) :
     present \in SUBSET {"sources", "truth", "factCheck", "context"},
     order \in SectionOrders}

LineLinked == << "1", ".", SP >> \o EntryA
LinePlain == << "7", ".", SP, "C" >>
LineInside == << "5", ".", SP, "see", SP >> \o EntryB \o << SP, "here" >>
LinePrefixed == << "-", SP, "3", ".", SP >> \o EntryB
LineNoSpace == << "4", "." >> \o EntryB
LineNote == << "note" >>
LinePool == {LineLinked, LinePlain, LineInside, LinePrefixed, LineNoSpace, LineNote}
LineSeqs == UNION {[1..n -> LinePool] : n \in 0..MaxLines}

\* A Sources section with the given lines, followed by a Truth block.
SourcesReport(lines) ==
  Join(<< SourcesLabel >> \o lines, << NL >>) \o << NL, NL >> \o BlockTruth

Narratives ==
  {<< "[", "1", "]" >>,
   << "[", "1", ",", SP, "2", "]" >>,
   << "[", "2", ",", "1", "]" >>,
   << "[", "9", "]" >>,
   << "[", "1", ",", SP, "9", "]" >>,
   << "[", "abc", "]" >>,
   << "[", "1", "a", "]" >>,
   << "[", "1", ",", SP, "x", "]" >>,
   << "a", SP, "[", "1", "]", SP, "b", SP, "[", "2", "]", "." >>}

\* A Fact Check narrative behind a Sources section with the given entries,
\* or alone when there are none.
CitingReport(entries, narrative) ==
  (IF entries = << >> THEN << >>
   ELSE SourcesLabel \o SourceSection(entries, 1) \o << NL, NL >>)
    \o FactCheckLabel \o << SP >> \o narrative

CitingReports ==
  {CitingReport(entries, narrative) :
     entries \in {<< >>, << EntryA >>, << EntryA, EntryB >>},
     narrative \in Narratives}

ParserTexts ==
  {JoinBlocks(blocks) : blocks \in BlockSeqs}
    \cup SubsetReports
    \cup {SourcesReport(lines) : lines \in LineSeqs}
    \cup CitingReports

\* The answer of the other backend while the parser is exercised.
GroqText == Report(<< EntryB >>, 1, Truth80)

PageText == << "page" >>

PerplexityFailures == {"networkError", "badJson", "noChoices", "noMessage"}
ToolhouseFailures == {"networkError", "badJson"}
GroqFailures == {"networkError", "badJson", "noChoices", "noMessage"}

\* What the Perplexity and Groq endpoints answer: a transport or JSON
\* failure, JSON without choices, a choice without message, or a message
\* whose content is a string or is missing.
ChatOutcomes(failures) ==
  {[kind |-> k, content |-> None] : k \in failures}
    \cup {[kind |-> "content", content |-> Some(t)] : t \in Texts}
    \cup {[kind |-> "content", content |-> None]}

\* What the Toolhouse endpoint answers: a failure, JSON with no or an empty
\* results field, or JSON with results.
ToolhouseOutcomes == ToolhouseFailures \cup {"noResults", "results"}

(***************************************************************************)
(* The backend clients of the background script.  Each returns             *)
(* [ok, value, error]: the value the promise fulfils with, or the message  *)
(* of the Error it rejects with.                                           *)
(***************************************************************************)
Fulfil(v) == [ok |-> TRUE, value |-> v, error |-> << >>]
Reject(msg) == [ok |-> FALSE, value |-> None, error |-> << msg >>]

FetchFailed == "Failed to fetch"
JsonFailed == "Unexpected token in JSON"
NoMessage == "Cannot read properties of undefined (reading 'content')"
InvalidPerplexity == "Invalid response from Perplexity API"
ToolhouseFailedMessage == "Failed to perform web search with Toolhouse"
GroqFailedMessage == "Failed to perform fact check with Groq"
NoSearchResults == << "No search results found." >>
FormattedResults == << "Source 1: t", NL, "URL: u", NL, "Snippet: s", NL, NL >>
NoKeysMessage == "No API Keys found. Please set at least one API Key in the extension popup."

queryPerplexityAI(outcome) ==
  IF outcome.kind = "networkError" THEN Reject(FetchFailed)
  ELSE IF outcome.kind = "badJson" THEN Reject(JsonFailed)
  ELSE IF outcome.kind = "noChoices" THEN Reject(InvalidPerplexity)
  ELSE IF outcome.kind = "noMessage" THEN Reject(NoMessage)
  ELSE Fulfil(outcome.content)

performToolhouseSearch(outcome) ==
  IF outcome \in ToolhouseFailures THEN Reject(ToolhouseFailedMessage)
  ELSE IF outcome = "results" THEN Fulfil(Some(FormattedResults))
  ELSE Fulfil(Some(NoSearchResults))

queryGroqAI(outcome) ==
  IF outcome.kind \in GroqFailures THEN Reject(GroqFailedMessage)
  ELSE Fulfil(outcome.content)

\* The wrapper without its catch handler: a rejection of the query goes
\* through to the promise pushed onto promises.
WrappedNoCatch(res) == IF res.ok THEN "fulfilled" ELSE "rejected"

\* The state of query(...).then(result => ...).catch(error => ...): the catch
\* handler returns normally, so the promise pushed onto promises fulfils
\* whatever the query did.
Wrapped(res) == "fulfilled"

\* Promise.all over the promises pushed: rejected as soon as one is,
\* fulfilled when all are (at once for an empty list), pending otherwise.
PromiseAll(promises) ==
  IF \E i \in 1..Len(promises) : promises[i] = "rejected" THEN "rejected"
  ELSE IF \A i \in 1..Len(promises) : promises[i] = "fulfilled" THEN "fulfilled"
  ELSE "pending"

\* The guard on the stored keys with the Perplexity key alone tested.
NoKeysPerplexityOnly(data) == ~data.apiKey /\ data.groqApiKey

\* The guard of initiateFactCheck on the stored keys.
NoKeys(data) == ~data.apiKey /\ ~data.groqApiKey

PerplexityUsable(data) == data.apiKey
GroqUsable(data) == data.groqApiKey /\ data.toolhouseApiKey

(***************************************************************************)
(* State.                                                                  *)
(***************************************************************************)
VARIABLES
  storage,           \* chrome.storage.sync: which keys are stored
  injected,          \* the content script listens in the tab
  pc,                \* position of the request in the background script
  pageContent,       \* what getPageContent returned
  perplexityCall,    \* "none", "pending" or the kind of the answer
  toolhouseCall,
  groqCall,
  groqPrompt,        \* the search results handed to queryGroqAI
  promises,          \* state of the two wrapped promises, "none" if not pushed
  perplexityResult,
  groqResult,
  rejection,         \* the reason a rejected wrapped promise carries
  calls,             \* network calls issued, per endpoint
  log,               \* console.error of the background script
  agg,               \* the locals of aggregateResults, when it merged
  sent,              \* messages sent to the tab, in order
  delivered,         \* how many of them the content script has handled
  box,               \* the result box of the content script
  second,            \* a second request for the same tab: position, answer, message
  page,              \* the tab's page: runs of content.js, message listeners, result containers
  popup              \* the popup page: position of a submission, status line, result element

vars == << storage, injected, pc, pageContent, perplexityCall, toolhouseCall,
           groqCall, groqPrompt, promises, perplexityResult, groqResult,
           rejection, calls, log, agg, sent, delivered, box, second, page, popup >>

backendVars == << perplexityCall, toolhouseCall, groqCall, groqPrompt, promises,
                  perplexityResult, groqResult, rejection, calls, log >>

RunContentScriptUnguarded(flag, p) ==
  [p EXCEPT !.runs = @ + 1, !.listeners = @ + 1]

\* One run of content.js in the tab: it returns at once when the window flag
\* of an earlier run is set, and registers its message listener otherwise.
RunContentScript(flag, p) ==
  IF flag THEN [p EXCEPT !.runs = @ + 1]
  ELSE [p EXCEPT !.runs = @ + 1, !.listeners = @ + 1]

DisplayActions == {"showLoading", "factCheckResult", "factCheckError"}

\* Every listener handles the message; the display functions of a run create
\* that run's container when it has none yet and never remove it.
ListenersHandle(p, action) ==
  IF action \in DisplayActions /\ p.containers < p.listeners
  THEN [p EXCEPT !.containers = p.listeners]
  ELSE p

\* The popup before a submission.
NoPopup == [pc |-> "idle", tabs |-> 0, status |-> "", join |-> "none",
            resultElement |-> None]

\* No second request.
NoSecond == [pc |-> "idle", result |-> None, message |-> None]

Init ==
  /\ storage \in [apiKey : BOOLEAN, groqApiKey : BOOLEAN, toolhouseApiKey : BOOLEAN]
  /\ injected \in BOOLEAN
  /\ pc = "idle"
  /\ pageContent = None
  /\ perplexityCall = "none"
  /\ toolhouseCall = "none"
  /\ groqCall = "none"
  /\ groqPrompt = None
  /\ promises = [perplexity |-> "none", groq |-> "none"]
  /\ perplexityResult = None
  /\ groqResult = None
  /\ rejection = None
  /\ calls = [perplexity |-> 0, toolhouse |-> 0, groq |-> 0]
  /\ log = {}
  /\ agg = None
  /\ sent = << >>
  /\ delivered = 0
  /\ box = [container |-> FALSE, shown |-> "none", view |-> None]
  /\ second = NoSecond
  /\ page = [runs |-> IF injected THEN 1 ELSE 0,
             listeners |-> IF injected THEN 1 ELSE 0, containers |-> 0]
  /\ popup = NoPopup

Message(action, data) == [action |-> action, data |-> data]

(***************************************************************************)
(* The background script.                                                  *)
(***************************************************************************)
\* The context menu listener: verifyScriptInjection asks the tab whether
\* the content script is there.
ContextMenuClick ==
  /\ pc = "idle"
  /\ pc' = "checkInjection"
  /\ UNCHANGED << storage, injected, pageContent, backendVars, agg, sent,
                  delivered, box >>
  /\ UNCHANGED second
  /\ UNCHANGED page
  /\ UNCHANGED popup

\* The callback of the checkInjection message: initiateFactCheck sends
\* showLoading and reads the keys when the content script answered,
\* injectScript otherwise.
CheckInjectionReply ==
  /\ pc = "checkInjection"
  /\ IF injected
     THEN /\ sent' = Append(sent, Message("showLoading", None))
          /\ pc' = "storageGet"
     ELSE /\ sent' = sent
          /\ pc' = "injecting"
  /\ UNCHANGED << storage, injected, pageContent, backendVars, agg, delivered, box >>
  /\ UNCHANGED second
  /\ UNCHANGED page
  /\ UNCHANGED popup

\* The callback of executeScript in injectScript.
InjectScriptDone(ok) ==
  /\ pc = "injecting"
  /\ IF ok
     THEN /\ injected' = TRUE
          /\ sent' = Append(sent, Message("showLoading", None))
          /\ pc' = "storageGet"
          /\ log' = log
     ELSE /\ injected' = injected
          /\ sent' = sent
          /\ pc' = "injectFailed"
          /\ log' = log \cup {[tag |-> "Error injecting script:", error |-> "lastError"]}
  /\ UNCHANGED << storage, pageContent, perplexityCall, toolhouseCall, groqCall,
                  groqPrompt, promises, perplexityResult, groqResult, rejection,
                  calls, agg, delivered, box >>
  /\ UNCHANGED second
  /\ page' = IF ok THEN RunContentScript(injected, page) ELSE page
  /\ UNCHANGED popup

\* The callback of chrome.storage.sync.get, up to the await of getPageContent.
StorageCallback ==
  /\ pc = "storageGet"
  /\ IF NoKeys(storage)
     THEN /\ sent' = Append(sent, Message("factCheckError", Some(<< NoKeysMessage >>)))
          /\ pc' = "done"
     ELSE /\ sent' = sent
          /\ pc' = "getPageContent"
  /\ UNCHANGED << storage, injected, pageContent, backendVars, agg, delivered, box >>
  /\ UNCHANGED second
  /\ UNCHANGED page
  /\ UNCHANGED popup

\* getPageContent settles (the page text, or '' when executeScript failed);
\* the callback goes on, pushes one wrapped promise per backend whose keys
\* are stored, which issues that backend's first fetch, and awaits them.
GetPageContentDone(ok) ==
  /\ pc = "getPageContent"
  /\ pageContent' = IF ok THEN Some(PageText) ELSE Some(<< >>)
  /\ log' = IF ok THEN log
            ELSE log \cup {[tag |-> "Error fetching page content:", error |-> "executeScript"]}
  /\ perplexityCall' = IF PerplexityUsable(storage) THEN "pending" ELSE "none"
  /\ toolhouseCall' = IF GroqUsable(storage) THEN "pending" ELSE "none"
  /\ promises' = [perplexity |-> IF PerplexityUsable(storage) THEN "pending" ELSE "none",
                  groq |-> IF GroqUsable(storage) THEN "pending" ELSE "none"]
  /\ calls' = [calls EXCEPT
                 !.perplexity = IF PerplexityUsable(storage) THEN @ + 1 ELSE @,
                 !.toolhouse = IF GroqUsable(storage) THEN @ + 1 ELSE @]
  /\ pc' = "awaitAll"
  /\ UNCHANGED << storage, injected, groqCall, groqPrompt, perplexityResult,
                  groqResult, rejection, agg, sent, delivered, box >>
  /\ UNCHANGED second
  /\ UNCHANGED page
  /\ UNCHANGED popup

\* The Perplexity endpoint answers; queryPerplexityAI settles and the then
\* or the catch handler of its wrapper runs.
PerplexityRespond(outcome) ==
  /\ perplexityCall = "pending"
  /\ LET res == queryPerplexityAI(outcome)
     IN /\ perplexityCall' = outcome.kind
        /\ perplexityResult' = IF res.ok THEN res.value ELSE perplexityResult
        /\ log' = IF res.ok THEN log
                  ELSE log \cup {[tag |-> "Perplexity API error:", error |-> res.error[1]]}
        /\ promises' = [promises EXCEPT !.perplexity = Wrapped(res)]
        /\ rejection' = IF ~res.ok /\ rejection = None THEN res.error ELSE rejection
  /\ UNCHANGED << storage, injected, pc, pageContent, toolhouseCall, groqCall,
                  groqPrompt, groqResult, calls, agg, sent, delivered, box >>
  /\ UNCHANGED second
  /\ UNCHANGED page
  /\ UNCHANGED popup

\* The Toolhouse step with one more try of the search after a failure.
ToolhouseRespondRetry(outcome) ==
  /\ toolhouseCall = "pending"
  /\ LET res == performToolhouseSearch(outcome)
     IN IF res.ok
        THEN /\ toolhouseCall' = outcome
             /\ groqCall' = "pending"
             /\ groqPrompt' = res.value
             /\ calls' = [calls EXCEPT !.groq = @ + 1]
             /\ UNCHANGED << log, promises, rejection >>
        ELSE IF calls.toolhouse < 2
        THEN /\ toolhouseCall' = "pending"
             /\ calls' = [calls EXCEPT !.toolhouse = @ + 1]
             /\ UNCHANGED << groqCall, groqPrompt, log, promises, rejection >>
        ELSE /\ toolhouseCall' = outcome
             /\ log' = log \cup {[tag |-> "Error with Toolhouse API:", error |-> outcome],
                                 [tag |-> "Groq/Toolhouse API error:", error |-> res.error[1]]}
             /\ promises' = [promises EXCEPT !.groq = Wrapped(res)]
             /\ rejection' = IF rejection = None THEN res.error ELSE rejection
             /\ UNCHANGED << groqCall, groqPrompt, calls >>
  /\ UNCHANGED << storage, injected, pc, pageContent, perplexityCall,
                  perplexityResult, groqResult, agg, sent, delivered, box >>
  /\ UNCHANGED second
  /\ UNCHANGED page
  /\ UNCHANGED popup

\* The Toolhouse endpoint answers; performToolhouseSearch settles.  When it
\* returned, queryGroqWithToolhouse calls queryGroqAI, which issues the Groq
\* fetch; when it threw, the catch handler of the wrapper runs.
ToolhouseRespond(outcome) ==
  /\ toolhouseCall = "pending"
  /\ LET res == performToolhouseSearch(outcome)
     IN /\ toolhouseCall' = outcome
        /\ IF res.ok
           THEN /\ groqCall' = "pending"
                /\ groqPrompt' = res.value
                /\ calls' = [calls EXCEPT !.groq = @ + 1]
                /\ UNCHANGED << log, promises, rejection >>
           ELSE /\ log' = log \cup {[tag |-> "Error with Toolhouse API:", error |-> outcome],
                                    [tag |-> "Groq/Toolhouse API error:", error |-> res.error[1]]}
                /\ promises' = [promises EXCEPT !.groq = Wrapped(res)]
                /\ rejection' = IF rejection = None THEN res.error ELSE rejection
                /\ UNCHANGED << groqCall, groqPrompt, calls >>
  /\ UNCHANGED << storage, injected, pc, pageContent, perplexityCall,
                  perplexityResult, groqResult, agg, sent, delivered, box >>
  /\ UNCHANGED second
  /\ UNCHANGED page
  /\ UNCHANGED popup

\* The Groq endpoint answers; queryGroqAI settles and with it
\* queryGroqWithToolhouse and its wrapper.
GroqRespond(outcome) ==
  /\ groqCall = "pending"
  /\ LET res == queryGroqAI(outcome)
     IN /\ groqCall' = outcome.kind
        /\ groqResult' = IF res.ok THEN res.value ELSE groqResult
        /\ log' = IF res.ok THEN log
                  ELSE log \cup {[tag |-> "Error with Groq API:", error |-> outcome.kind],
                                 [tag |-> "Groq/Toolhouse API error:", error |-> res.error[1]]}
        /\ promises' = [promises EXCEPT !.groq = Wrapped(res)]
        /\ rejection' = IF ~res.ok /\ rejection = None THEN res.error ELSE rejection
  /\ UNCHANGED << storage, injected, pc, pageContent, perplexityCall, toolhouseCall,
                  groqPrompt, perplexityResult, calls, agg, sent, delivered, box >>
  /\ UNCHANGED second
  /\ UNCHANGED page
  /\ UNCHANGED popup

\* The promises pushed, in the order of the pushes.
Pushed ==
  (IF promises.perplexity = "none" THEN << >> ELSE << promises.perplexity >>)
    \o (IF promises.groq = "none" THEN << >> ELSE << promises.groq >>)

\* The locals of aggregateResults when it merges two results.
Merge(pResult, gResult) ==
  LET perplexityData == parseResult(pResult)
      groqData == parseResult(gResult)
  IN [perplexityData |-> perplexityData,
      groqData |-> groqData,
      combinedSources |-> combineSources(perplexityData.sources, groqData.sources),
      avgTruth |-> averageTruth(perplexityData, groqData)]

\* await Promise.all(promises) resumes: the results are aggregated and sent
\* as factCheckResult; a rejection goes to the catch block and reportError.
JoinAll ==
  /\ pc = "awaitAll"
  /\ PromiseAll(Pushed) # "pending"
  /\ IF PromiseAll(Pushed) = "rejected"
     THEN /\ sent' = Append(sent, Message("factCheckError", Some(rejection)))
          /\ log' = log \cup {[tag |-> "Error in fact checking:", error |-> rejection[1]]}
          /\ agg' = agg
     ELSE /\ sent' = Append(sent, Message("factCheckResult",
                       Some(aggregateResults(perplexityResult, groqResult))))
          /\ log' = log
          /\ agg' = IF ~Falsy(perplexityResult) /\ ~Falsy(groqResult)
                    THEN Some(Merge(perplexityResult, groqResult)) ELSE agg
  /\ pc' = "done"
  /\ UNCHANGED << storage, injected, pageContent, perplexityCall, toolhouseCall,
                  groqCall, groqPrompt, promises, perplexityResult, groqResult,
                  rejection, calls, delivered, box >>
  /\ UNCHANGED second
  /\ UNCHANGED page
  /\ UNCHANGED popup

(***************************************************************************)
(* The content script.                                                     *)
(***************************************************************************)
\* displayLoader
displayLoader(b) == [container |-> TRUE, shown |-> "loader", view |-> None]

\* displayResult(result): a throw of parseResult or updateContainer leaves
\* the box as it was, the container created.
displayResult(b, result) ==
  LET parsedData == contentParseResult(result)
      view == IF parsedData = None THEN None ELSE updateContainer(parsedData[1])
  IN IF view = None THEN [b EXCEPT !.container = TRUE]
     ELSE [container |-> TRUE, shown |-> "result", view |-> view]

\* displayError(message)
displayError(b, message) ==
  LET view == updateContainer(ErrorData(message))
  IN IF view = None THEN [b EXCEPT !.container = TRUE]
     ELSE [container |-> TRUE, shown |-> "error", view |-> view]

\* The onMessage listener handles the next message sent to the tab.
ContentReceive ==
  /\ injected
  /\ delivered < Len(sent)
  /\ LET request == sent[delivered + 1]
     IN box' = IF request.action = "showLoading" THEN displayLoader(box)
               ELSE IF request.action = "factCheckResult"
                    THEN displayResult(box, request.data)
               ELSE IF request.action = "factCheckError"
                    THEN displayError(box, request.data[1])
               ELSE box
  /\ delivered' = delivered + 1
  /\ UNCHANGED << storage, injected, pc, pageContent, backendVars, agg, sent >>
  /\ UNCHANGED second
  /\ page' = ListenersHandle(page, sent[delivered + 1].action)
  /\ UNCHANGED popup

Next ==
  \/ ContextMenuClick
  \/ CheckInjectionReply
  \/ \E ok \in BOOLEAN : InjectScriptDone(ok)
  \/ StorageCallback
  \/ \E ok \in BOOLEAN : GetPageContentDone(ok)
  \/ \E outcome \in ChatOutcomes(PerplexityFailures) : PerplexityRespond(outcome)
  \/ \E outcome \in ToolhouseOutcomes : ToolhouseRespond(outcome)
  \/ \E outcome \in ChatOutcomes(GroqFailures) : GroqRespond(outcome)
  \/ JoinAll
  \/ ContentReceive

Spec == Init /\ [][Next]_vars

(***************************************************************************)
(* Progress.  The callbacks of the extension run once they are due: the    *)
(* reply to checkInjection, the callbacks of executeScript and of the      *)
(* storage read, the continuation behind an await whose promise has        *)
(* settled, and the message listener of the tab.  Nothing makes an         *)
(* endpoint answer: fetch is called without signal or timer, so the        *)
(* answers of the backends carry no fairness condition.                    *)
(***************************************************************************)
Callbacks ==
  \/ CheckInjectionReply
  \/ \E ok \in BOOLEAN : InjectScriptDone(ok)
  \/ StorageCallback
  \/ \E ok \in BOOLEAN : GetPageContentDone(ok)

\* When JoinAll and when ContentReceive can take a step: their guards.
JoinDue == pc = "awaitAll" /\ PromiseAll(Pushed) # "pending"
ReceiveDue == injected /\ delivered < Len(sent)

\* Weak fairness of the callbacks, of JoinAll and of ContentReceive, the
\* last two written out with their guards for ENABLED.
LiveSpec ==
  /\ Init /\ [][Next]_vars
  /\ WF_vars(Callbacks)
  /\ (<>[]JoinDue => []<><<JoinAll>>_vars)
  /\ (<>[]ReceiveDue => []<><<ContentReceive>>_vars)

\* The same with endpoints that always answer in the end.
PerplexityDue == perplexityCall = "pending"
ToolhouseDue == toolhouseCall = "pending"
GroqDue == groqCall = "pending"

ResponsiveSpec ==
  /\ LiveSpec
  /\ (<>[]PerplexityDue => []<>~PerplexityDue)
  /\ (<>[]ToolhouseDue => []<>~ToolhouseDue)
  /\ (<>[]GroqDue => []<>~GroqDue)

(***************************************************************************)
(* The request at the point where both wrapped promises have settled,      *)
(* whatever text Perplexity answered: the Groq unit has failed at the      *)
(* search step or has answered a well-formed report.  From there the join  *)
(* aggregates and the content script parses and shows the result.          *)
(***************************************************************************)
ParserInit ==
  /\ storage = [apiKey |-> TRUE, groqApiKey |-> TRUE, toolhouseApiKey |-> TRUE]
  /\ injected = TRUE
  /\ pc = "awaitAll"
  /\ pageContent = Some(PageText)
  /\ perplexityCall = "content"
  /\ perplexityResult \in {Some(t) : t \in ParserTexts}
  /\ promises = [perplexity |-> "fulfilled", groq |-> "fulfilled"]
  /\ \/ /\ toolhouseCall = "networkError"
        /\ groqCall = "none"
        /\ groqPrompt = None
        /\ groqResult = None
        /\ rejection = performToolhouseSearch("networkError").error
        /\ calls = [perplexity |-> 1, toolhouse |-> 1, groq |-> 0]
        /\ log = {[tag |-> "Error with Toolhouse API:", error |-> "networkError"],
                  [tag |-> "Groq/Toolhouse API error:", error |-> ToolhouseFailedMessage]}
     \/ /\ toolhouseCall = "results"
        /\ groqCall = "content"
        /\ groqPrompt = performToolhouseSearch("results").value
        /\ groqResult = Some(GroqText)
        /\ rejection = None
        /\ calls = [perplexity |-> 1, toolhouse |-> 1, groq |-> 1]
        /\ log = {}
  /\ agg = None
  /\ sent = << Message("showLoading", None) >>
  /\ delivered = 0
  /\ box = [container |-> FALSE, shown |-> "none", view |-> None]
  /\ second = NoSecond
  /\ page = [runs |-> IF injected THEN 1 ELSE 0,
             listeners |-> IF injected THEN 1 ELSE 0, containers |-> 0]
  /\ popup = NoPopup

ParserNext == JoinAll \/ ContentReceive

ParserSpec == ParserInit /\ [][ParserNext]_vars

(***************************************************************************)
(* The background script with the single backend (background.js): the      *)
(* same click, injection check and injection, then one key, one query and  *)
(* its answer sent to the tab as it is.                                    *)
(***************************************************************************)
NoKeyMessage == "API Key not found. Please set it in the extension popup."

\* queryAI of background.js: the Perplexity query, without the fallbacks.
queryAI(outcome) ==
  IF outcome.kind = "networkError" THEN Reject(FetchFailed)
  ELSE IF outcome.kind = "badJson" THEN Reject(JsonFailed)
  ELSE IF outcome.kind = "noChoices" THEN Reject(InvalidPerplexity)
  ELSE IF outcome.kind = "noMessage" THEN Reject(NoMessage)
  ELSE Fulfil(outcome.content)

\* What the endpoint answers to queryAI: the answers of the Perplexity
\* endpoint, a label with an empty body and a label that comes twice.
SingleOutcomes ==
  ChatOutcomes(PerplexityFailures)
    \cup {[kind |-> "content", content |-> Some(t)] :
            t \in {JoinBlocks(<< BlockEmptyBody >>),
                   JoinBlocks(<< BlockFactCheck, BlockFactCheck >>)}}

\* The callback of chrome.storage.sync.get('apiKey'), up to the await of
\* getPageContent.
SingleStorageCallback ==
  /\ pc = "storageGet"
  /\ IF storage.apiKey
     THEN /\ sent' = sent
          /\ pc' = "getPageContent"
     ELSE /\ sent' = Append(sent, Message("factCheckError", Some(<< NoKeyMessage >>)))
          /\ pc' = "done"
  /\ UNCHANGED << storage, injected, pageContent, backendVars, agg, delivered, box >>
  /\ UNCHANGED second
  /\ UNCHANGED page
  /\ UNCHANGED popup

SingleGetPageContentDoneFatal(ok) ==
  /\ pc = "getPageContent"
  /\ pageContent' = IF ok THEN Some(PageText) ELSE None
  /\ log' = IF ok THEN log
            ELSE log \cup {[tag |-> "Error fetching page content:", error |-> "executeScript"]}
  /\ perplexityCall' = IF ok THEN "pending" ELSE perplexityCall
  /\ calls' = IF ok THEN [calls EXCEPT !.perplexity = @ + 1] ELSE calls
  /\ sent' = IF ok THEN sent
             ELSE Append(sent, Message("factCheckError", Some(<< "executeScript" >>)))
  /\ pc' = IF ok THEN "awaitQuery" ELSE "done"
  /\ UNCHANGED << storage, injected, toolhouseCall, groqCall, groqPrompt, promises,
                  perplexityResult, groqResult, rejection, agg, delivered, box >>
  /\ UNCHANGED second
  /\ UNCHANGED page
  /\ UNCHANGED popup

\* getPageContent settles and queryAI issues its fetch.
SingleGetPageContentDone(ok) ==
  /\ pc = "getPageContent"
  /\ pageContent' = IF ok THEN Some(PageText) ELSE Some(<< >>)
  /\ log' = IF ok THEN log
            ELSE log \cup {[tag |-> "Error fetching page content:", error |-> "executeScript"]}
  /\ perplexityCall' = "pending"
  /\ calls' = [calls EXCEPT !.perplexity = @ + 1]
  /\ pc' = "awaitQuery"
  /\ UNCHANGED << storage, injected, toolhouseCall, groqCall, groqPrompt, promises,
                  perplexityResult, groqResult, rejection, agg, sent, delivered, box >>
  /\ UNCHANGED second
  /\ UNCHANGED page
  /\ UNCHANGED popup

\* The endpoint answers and queryAI settles: its value is sent as
\* factCheckResult, whatever it is; a throw goes to reportError.
SingleRespond(outcome) ==
  /\ pc = "awaitQuery"
  /\ perplexityCall = "pending"
  /\ LET res == queryAI(outcome)
     IN /\ perplexityCall' = outcome.kind
        /\ perplexityResult' = IF res.ok THEN res.value ELSE perplexityResult
        /\ rejection' = IF res.ok THEN rejection ELSE res.error
        /\ log' = IF res.ok THEN log
                  ELSE log \cup {[tag |-> "Error in fact checking:", error |-> res.error[1]]}
        /\ sent' = IF res.ok THEN Append(sent, Message("factCheckResult", res.value))
                   ELSE Append(sent, Message("factCheckError", Some(res.error)))
  /\ pc' = "done"
  /\ UNCHANGED << storage, injected, pageContent, toolhouseCall, groqCall, groqPrompt,
                  promises, groqResult, calls, agg, delivered, box >>
  /\ UNCHANGED second
  /\ UNCHANGED page
  /\ UNCHANGED popup

SingleNext ==
  \/ ContextMenuClick
  \/ CheckInjectionReply
  \/ \E ok \in BOOLEAN : InjectScriptDone(ok)
  \/ SingleStorageCallback
  \/ \E ok \in BOOLEAN : SingleGetPageContentDone(ok)
  \/ \E outcome \in SingleOutcomes : SingleRespond(outcome)
  \/ ContentReceive

SingleSpec == Init /\ [][SingleNext]_vars

(***************************************************************************)
(* Two requests for the same tab (background.js): while the first is under *)
(* way the user picks the menu entry again.  Each request runs the same    *)
(* handlers with its own closure; the tab, its listener and its result     *)
(* box are shared, and the messages carry no mark of their request.        *)
(***************************************************************************)
TextOne == Report(<< EntryA >>, 1, Truth80)
TextTwo == Report(<< EntryB >>, 1, Truth55)

OverlapOutcomes ==
  {[kind |-> "networkError", content |-> None]}
    \cup {[kind |-> "content", content |-> Some(t)] : t \in {TextOne, TextTwo}}

FirstUnderWay == pc \notin {"idle", "done", "injectFailed"}

SecondContextMenuClick ==
  /\ FirstUnderWay
  /\ second.pc = "idle"
  /\ second' = [second EXCEPT !.pc = "checkInjection"]
  /\ UNCHANGED << storage, injected, pc, pageContent, backendVars, agg, sent,
                  delivered, box >>
  /\ UNCHANGED page
  /\ UNCHANGED popup

SecondCheckInjectionReply ==
  /\ second.pc = "checkInjection"
  /\ IF injected
     THEN /\ sent' = Append(sent, Message("showLoading", None))
          /\ second' = [second EXCEPT !.pc = "storageGet"]
     ELSE /\ sent' = sent
          /\ second' = [second EXCEPT !.pc = "injecting"]
  /\ UNCHANGED << storage, injected, pc, pageContent, backendVars, agg, delivered, box >>
  /\ UNCHANGED page
  /\ UNCHANGED popup

SecondInjectScriptDone(ok) ==
  /\ second.pc = "injecting"
  /\ IF ok
     THEN /\ injected' = TRUE
          /\ sent' = Append(sent, Message("showLoading", None))
          /\ second' = [second EXCEPT !.pc = "storageGet"]
          /\ log' = log
     ELSE /\ injected' = injected
          /\ sent' = sent
          /\ second' = [second EXCEPT !.pc = "injectFailed"]
          /\ log' = log \cup {[tag |-> "Error injecting script:", error |-> "lastError"]}
  /\ UNCHANGED << storage, pc, pageContent, perplexityCall, toolhouseCall, groqCall,
                  groqPrompt, promises, perplexityResult, groqResult, rejection,
                  calls, agg, delivered, box >>
  /\ page' = IF ok THEN RunContentScript(injected, page) ELSE page
  /\ UNCHANGED popup

SecondStorageCallback ==
  /\ second.pc = "storageGet"
  /\ IF storage.apiKey
     THEN /\ sent' = sent
          /\ second' = [second EXCEPT !.pc = "getPageContent"]
     ELSE /\ sent' = Append(sent, Message("factCheckError", Some(<< NoKeyMessage >>)))
          /\ second' = [second EXCEPT
                          !.pc = "done",
                          !.message = Some(Message("factCheckError", Some(<< NoKeyMessage >>)))]
  /\ UNCHANGED << storage, injected, pc, pageContent, backendVars, agg, delivered, box >>
  /\ UNCHANGED page
  /\ UNCHANGED popup

SecondGetPageContentDone(ok) ==
  /\ second.pc = "getPageContent"
  /\ log' = IF ok THEN log
            ELSE log \cup {[tag |-> "Error fetching page content:", error |-> "executeScript"]}
  /\ calls' = [calls EXCEPT !.perplexity = @ + 1]
  /\ second' = [second EXCEPT !.pc = "awaitQuery"]
  /\ UNCHANGED << storage, injected, pc, pageContent, perplexityCall, toolhouseCall,
                  groqCall, groqPrompt, promises, perplexityResult, groqResult,
                  rejection, agg, sent, delivered, box >>
  /\ UNCHANGED page
  /\ UNCHANGED popup

SecondRespond(outcome) ==
  /\ second.pc = "awaitQuery"
  /\ LET res == queryAI(outcome)
         message == IF res.ok THEN Message("factCheckResult", res.value)
                    ELSE Message("factCheckError", Some(res.error))
     IN /\ log' = IF res.ok THEN log
                  ELSE log \cup {[tag |-> "Error in fact checking:", error |-> res.error[1]]}
        /\ sent' = Append(sent, message)
        /\ second' = [pc |-> "done", result |-> res.value, message |-> Some(message)]
  /\ UNCHANGED << storage, injected, pc, pageContent, perplexityCall, toolhouseCall,
                  groqCall, groqPrompt, promises, perplexityResult, groqResult,
                  rejection, calls, agg, delivered, box >>
  /\ UNCHANGED page
  /\ UNCHANGED popup

OverlapNext ==
  \/ ContextMenuClick
  \/ CheckInjectionReply
  \/ \E ok \in BOOLEAN : InjectScriptDone(ok)
  \/ SingleStorageCallback
  \/ \E ok \in BOOLEAN : SingleGetPageContentDone(ok)
  \/ \E outcome \in OverlapOutcomes : SingleRespond(outcome)
  \/ SecondContextMenuClick
  \/ SecondCheckInjectionReply
  \/ \E ok \in BOOLEAN : SecondInjectScriptDone(ok)
  \/ SecondStorageCallback
  \/ \E ok \in BOOLEAN : SecondGetPageContentDone(ok)
  \/ \E outcome \in OverlapOutcomes : SecondRespond(outcome)
  \/ ContentReceive

OverlapSpec == Init /\ [][OverlapNext]_vars

(***************************************************************************)
(* The popup: a fact check of text typed into the popup page.              *)
(***************************************************************************)
EnterTextStatus == "Please enter text to fact check."
NoKeysStatus == "No API Keys found. Please set at least one API Key in the settings."
CheckingStatus == "Checking facts..."
CompleteStatus == "Fact check complete! Results shown on page."

\* The end of the match of /\[([^\]]+)\]\(([^)]+)\)/ that starts at i, as
\* << position of "]", position of ")" >>; << >> when there is no match.
MarkdownLinkAt(text, i) ==
  IF text[i] # "[" THEN << >>
  ELSE LET c == IndexOf(text, << "]" >>, i + 1)
       IN IF c = 0 \/ c = i + 1 \/ c + 1 > Len(text) THEN << >>
          ELSE IF text[c + 1] # "(" THEN << >>
          ELSE LET e == IndexOf(text, << ")" >>, c + 2)
               IN IF e = 0 \/ e = c + 2 THEN << >> ELSE << c, e >>

\* result.replace(/\[([^\]]+)\]\(([^)]+)\)/g, '<a href="$2" target="_blank">$1</a>')
RECURSIVE LinkifyMarkdown(_, _)
LinkifyMarkdown(text, i) ==
  IF i > Len(text) THEN << >>
  ELSE LET m == MarkdownLinkAt(text, i)
       IN IF m = << >> THEN << text[i] >> \o LinkifyMarkdown(text, i + 1)
          ELSE << "<a href=\"" >> \o SubSeq(text, m[1] + 2, m[2] - 1)
                 \o << "\" target=\"_blank\">" >> \o SubSeq(text, i + 1, m[1] - 1)
                 \o << "</a>" >> \o LinkifyMarkdown(text, m[2] + 1)

\* formatResult(result)
formatResult(result) ==
  LET linkified == LinkifyMarkdown(result, 1)
  IN [i \in 1..Len(linkified) |-> IF linkified[i] = NL THEN "<br>" ELSE linkified[i]]

\* The click on the submit button, with the trimmed text empty or not;
\* present tells whether the window has an active tab.
PopupSubmit(nonEmpty, present) ==
  /\ popup.pc = "idle"
  /\ popup' = IF nonEmpty
              THEN [popup EXCEPT !.pc = "storageGet", !.tabs = IF present THEN 1 ELSE 0]
              ELSE [popup EXCEPT !.status = EnterTextStatus]
  /\ UNCHANGED << storage, injected, pc, pageContent, backendVars, agg, sent,
                  delivered, box, second, page >>

\* The callback of chrome.storage.sync.get in submitFactCheck: without a
\* Perplexity and a Groq key it reports and returns; otherwise it shows the
\* loading status, asks for the active tab, pushes one wrapped promise per
\* backend whose keys are stored and awaits them.
PopupStorageCallback ==
  /\ popup.pc = "storageGet"
  /\ IF NoKeys(storage)
     THEN /\ popup' = [popup EXCEPT !.pc = "done", !.status = NoKeysStatus]
          /\ UNCHANGED << perplexityCall, toolhouseCall, promises, calls >>
     ELSE /\ popup' = [popup EXCEPT !.pc = "tabsQuery", !.status = CheckingStatus,
                                    !.join = "awaiting",
                                    !.resultElement = Some(<< "<p>Loading... This may take a few moments.</p>" >>)]
          /\ perplexityCall' = IF PerplexityUsable(storage) THEN "pending" ELSE "none"
          /\ toolhouseCall' = IF GroqUsable(storage) THEN "pending" ELSE "none"
          /\ promises' = [perplexity |-> IF PerplexityUsable(storage) THEN "pending" ELSE "none",
                          groq |-> IF GroqUsable(storage) THEN "pending" ELSE "none"]
          /\ calls' = [calls EXCEPT
                         !.perplexity = IF PerplexityUsable(storage) THEN @ + 1 ELSE @,
                         !.toolhouse = IF GroqUsable(storage) THEN @ + 1 ELSE @]
  /\ UNCHANGED << storage, injected, pc, pageContent, groqCall, groqPrompt,
                  perplexityResult, groqResult, rejection, log, agg, sent,
                  delivered, box, second, page >>

\* The callback of chrome.tabs.query.  Without a tab it throws; with one it
\* calls queryAI, a name the popup script does not define, so the call
\* throws a ReferenceError.  Either way the async callback's promise is
\* rejected with no handler and nothing after the call runs.
PopupTabsQueryCallback ==
  /\ popup.pc = "tabsQuery"
  /\ popup' = [popup EXCEPT !.pc = "threw"]
  /\ log' = log \cup {[tag |-> "Uncaught (in promise)",
                       error |-> IF popup.tabs = 0 THEN "No active tab found"
                                 ELSE "queryAI is not defined"]}
  /\ UNCHANGED << storage, injected, pc, pageContent, perplexityCall, toolhouseCall,
                  groqCall, groqPrompt, promises, perplexityResult, groqResult,
                  rejection, calls, agg, sent, delivered, box, second, page >>

\* await Promise.all(promises) resumes in the storage callback: the results
\* are aggregated and shown in the popup's result element.
PopupJoinAll ==
  /\ popup.join = "awaiting"
  /\ PromiseAll(Pushed) # "pending"
  /\ popup' = [popup EXCEPT !.join = "done",
                 !.resultElement = Some(formatResult(aggregateResults(perplexityResult, groqResult)))]
  /\ agg' = IF ~Falsy(perplexityResult) /\ ~Falsy(groqResult)
            THEN Some(Merge(perplexityResult, groqResult)) ELSE agg
  /\ UNCHANGED << storage, injected, pc, pageContent, backendVars, sent,
                  delivered, box, second, page >>

\* The timer of showStatus clears the status line.
PopupStatusTimeout ==
  /\ popup.status # ""
  /\ popup' = [popup EXCEPT !.status = ""]
  /\ UNCHANGED << storage, injected, pc, pageContent, backendVars, agg, sent,
                  delivered, box, second, page >>

PopupNext ==
  \/ \E nonEmpty \in BOOLEAN, present \in BOOLEAN : PopupSubmit(nonEmpty, present)
  \/ PopupStorageCallback
  \/ PopupTabsQueryCallback
  \/ \E outcome \in ChatOutcomes(PerplexityFailures) : PerplexityRespond(outcome)
  \/ \E outcome \in ToolhouseOutcomes : ToolhouseRespond(outcome)
  \/ \E outcome \in ChatOutcomes(GroqFailures) : GroqRespond(outcome)
  \/ PopupJoinAll
  \/ PopupStatusTimeout

PopupSpec == Init /\ [][PopupNext]_vars

\* The browser runs the callbacks of storage.get and tabs.query.
PopupLiveSpec ==
  /\ PopupSpec
  /\ WF_vars(PopupStorageCallback)
  /\ WF_vars(PopupTabsQueryCallback)

(***************************************************************************)
(* Vocabulary of the properties.                                           *)
(***************************************************************************)
LastSent == sent[Len(sent)]
SentActions == {sent[i].action : i \in 1..Len(sent)}

PerplexityDispatched == perplexityCall # "none"
GroqDispatched == toolhouseCall # "none"

\* A backend succeeded when its query returned a string, and failed when it
\* threw or returned no content.
PerplexitySucceeded == perplexityCall = "content" /\ perplexityResult # None
PerplexityFailed ==
  \/ perplexityCall \in PerplexityFailures
  \/ perplexityCall = "content" /\ perplexityResult = None
GroqSucceeded == groqCall = "content" /\ groqResult # None
GroqFailed ==
  \/ toolhouseCall \in ToolhouseFailures
  \/ groqCall \in GroqFailures
  \/ groqCall = "content" /\ groqResult = None

\* The backend threw: its wrapper's catch handler ran.
PerplexityThrew == perplexityCall \in PerplexityFailures
GroqThrew == toolhouseCall \in ToolhouseFailures \/ groqCall \in GroqFailures

AllDelivered == delivered = Len(sent)

\* What the result box shows for a raw text handed to displayResult.
ViewOf(text) == updateContainer(contentParseResult(Some(text))[1])

(***************************************************************************)
(* C1: when two backends are dispatched and exactly one of them fails, in  *)
(* either order of settlement, the request ends with a factCheckResult     *)
(* message and never with a factCheckError; the report sent is the report  *)
(* of the surviving backend (the very text it returned when that text is   *)
(* not empty), and the box shows that report and nothing else.             *)
(***************************************************************************)
OneOfTwoFailed ==
  /\ pc = "done"
  /\ PerplexityDispatched /\ GroqDispatched
  /\ \/ PerplexityFailed /\ GroqSucceeded
     \/ PerplexitySucceeded /\ GroqFailed

Survivor == IF PerplexitySucceeded THEN perplexityResult ELSE groqResult

SurvivorOnly ==
  OneOfTwoFailed =>
    /\ LastSent.action = "factCheckResult"
    /\ "factCheckError" \notin SentActions
    /\ parseResult(LastSent.data) = parseResult(Survivor)
    /\ Survivor[1] # << >> => LastSent.data = Survivor
    /\ AllDelivered => box.shown = "result" /\ box.view = ViewOf(Survivor[1])

SurvivorOnlyWitness ==
  /\ OneOfTwoFailed
  /\ PerplexityThrew
  /\ Len(parseResult(groqResult).sources) = 2
  /\ AllDelivered

(***************************************************************************)
(* C2: when every dispatched backend call fails, the request ends with a   *)
(* factCheckError message that carries the failure reason of each backend, *)
(* and no factCheckResult message is sent.                                 *)
(***************************************************************************)
AllDispatchedThrew ==
  /\ pc = "done"
  /\ PerplexityDispatched \/ GroqDispatched
  /\ PerplexityDispatched => PerplexityThrew
  /\ GroqDispatched => GroqThrew

BackendReasons ==
  {e.error : e \in {l \in log : l.tag \in {"Perplexity API error:",
                                          "Groq/Toolhouse API error:"}}}

AllFailedIsError ==
  AllDispatchedThrew =>
    /\ LastSent.action = "factCheckError"
    /\ "factCheckResult" \notin SentActions
    /\ \A r \in BackendReasons : \E i \in 1..Len(LastSent.data[1]) : LastSent.data[1][i] = r

(***************************************************************************)
(* C3: when no key at all is stored, the request ends with the             *)
(* no-API-keys factCheckError as its only message after showLoading, and   *)
(* at no point of the request is a call to Perplexity, Toolhouse or Groq   *)
(* issued.                                                                 *)
(***************************************************************************)
NothingStored == ~storage.apiKey /\ ~storage.groqApiKey /\ ~storage.toolhouseApiKey

NoCredentialsNoCalls ==
  NothingStored =>
    /\ calls = [perplexity |-> 0, toolhouse |-> 0, groq |-> 0]
    /\ perplexityCall = "none" /\ toolhouseCall = "none" /\ groqCall = "none"
    /\ "factCheckResult" \notin SentActions
    /\ pc = "done" =>
         sent = << Message("showLoading", None),
                   Message("factCheckError", Some(<< NoKeysMessage >>)) >>
    /\ pc \notin {"getPageContent", "awaitAll"}

NoCredentialsNoCallsWitness ==
  /\ NothingStored
  /\ pc = "done"
  /\ AllDelivered
  /\ box.shown = "error"

(***************************************************************************)
(* C4: for every combination of stored keys, if neither Perplexity (its    *)
(* key) nor the Groq unit (the Groq and the Toolhouse key) has all of its  *)
(* credentials, the request ends with the no-API-keys factCheckError and   *)
(* never with a result after zero calls.                                   *)
(***************************************************************************)
NoUsableBackendIsError ==
  (pc = "done" /\ ~PerplexityUsable(storage) /\ ~GroqUsable(storage)) =>
    /\ LastSent = Message("factCheckError", Some(<< NoKeysMessage >>))
    /\ "factCheckResult" \notin SentActions

(***************************************************************************)
(* C5: a result or error is sent only after every dispatched backend call  *)
(* has settled: while a call is in flight no terminal message has been     *)
(* sent, also when the sibling call has already failed, and at the end     *)
(* every promise pushed is settled and every call issued has been answered.*)
(***************************************************************************)
SomeCallPending ==
  perplexityCall = "pending" \/ toolhouseCall = "pending" \/ groqCall = "pending"

Terminal == {"factCheckResult", "factCheckError"}

JoinWaitsForAll ==
  /\ SomeCallPending => pc = "awaitAll" /\ SentActions \cap Terminal = {}
  /\ pc = "done" =>
       /\ promises.perplexity \in {"none", "fulfilled"}
       /\ promises.groq \in {"none", "fulfilled"}
       /\ toolhouseCall \in {"noResults", "results"} => groqCall \notin {"none", "pending"}

JoinWaitsForAllWitness ==
  /\ pc = "awaitAll"
  /\ \/ PerplexityThrew /\ (toolhouseCall = "pending" \/ groqCall = "pending")
     \/ GroqThrew /\ perplexityCall = "pending"

(***************************************************************************)
(* C6: whenever the Toolhouse search step fails (network error, malformed  *)
(* response, or a response without the expected results field), the Groq   *)
(* synthesis call is never issued and the unit is recorded as failed.      *)
(***************************************************************************)
SearchFailed == toolhouseCall \in ToolhouseFailures \cup {"noResults"}

SearchFailureStopsUnit ==
  SearchFailed =>
    /\ calls.groq = 0
    /\ groqCall = "none"
    /\ groqResult = None
    /\ \E l \in log : l.tag = "Groq/Toolhouse API error:"

(***************************************************************************)
(* C7: when both backends succeed, the report shown to the user has a      *)
(* factCheck field that contains the fact-check narrative of each backend  *)
(* under its backend label, and a context field that contains the context  *)
(* narrative of each backend; no narrative is lost or replaced by the      *)
(* 'not provided' sentinel.                                                *)
(***************************************************************************)
RECURSIVE Flatten(_)
Flatten(pairs) ==
  IF pairs = << >> THEN << >>
  ELSE Head(pairs)[1] \o << SP >> \o Head(pairs)[2] \o << NL >> \o Flatten(Tail(pairs))

BothNarrated ==
  /\ pc = "done"
  /\ agg # None
  /\ agg[1].perplexityData.factCheck # NoFactCheck
  /\ agg[1].groqData.factCheck # NoFactCheck
  /\ agg[1].perplexityData.context # NoContext
  /\ agg[1].groqData.context # NoContext
  /\ AllDelivered

MergedNarrativesShown ==
  BothNarrated =>
    /\ box.shown = "result"
    /\ LET shownFactCheck == Flatten(box.view[1].factCheck)
           shownContext == Flatten(box.view[1].context)
           final == box.view[1].sources
       IN /\ Includes(shownFactCheck, PerplexityTag)
          /\ Includes(shownFactCheck, GroqTag)
          /\ Includes(shownFactCheck, linkifyReferences(agg[1].perplexityData.factCheck, final))
          /\ Includes(shownFactCheck, linkifyReferences(agg[1].groqData.factCheck, final))
          /\ Includes(shownContext, linkifyReferences(agg[1].perplexityData.context, final))
          /\ Includes(shownContext, linkifyReferences(agg[1].groqData.context, final))
          /\ ~Includes(shownFactCheck, NoFactCheck)
          /\ ~Includes(shownContext, NoContext)

(***************************************************************************)
(* C8: the merged source list is the first report's sources in their order *)
(* followed by exactly those sources of the second report whose url is not *)
(* string-equal to the url of an entry already in the list, in the second  *)
(* report's order.  Hence when no source of the second report shares its   *)
(* url with another source of either report the merged length is the sum   *)
(* of both lengths, and when exactly one does, sharing it with a source of *)
(* the first report, it is the sum minus one.  The list shown to the user  *)
(* has the same titles and urls in the same order.                         *)
(***************************************************************************)
UrlsOf(sources) == {sources[i].url : i \in 1..Len(sources)}

\* The positions of the second report whose url is neither in the first
\* report nor at an earlier position of the second.
KeptOf(p, g) ==
  {j \in 1..Len(g) :
     /\ g[j].url \notin UrlsOf(p)
     /\ \A k \in 1..(j - 1) : g[k].url # g[j].url}

\* The k-th smallest element of a set of numbers.
NthOf(S, k) == CHOOSE x \in S : Cardinality({y \in S : y < x}) = k - 1

SharedWithFirst(p, g) == {j \in 1..Len(g) : g[j].url \in UrlsOf(p)}
TitlesAndUrls(sources) ==
  [i \in 1..Len(sources) |-> << sources[i].title, sources[i].url >>]
NoRepeatIn(g) == \A j, k \in 1..Len(g) : j # k => g[j].url # g[k].url

MergedSourcesLaw ==
  agg # None =>
    LET p == agg[1].perplexityData.sources
        g == agg[1].groqData.sources
        m == agg[1].combinedSources
        kept == KeptOf(p, g)
    IN /\ Len(m) = Len(p) + Cardinality(kept)
       /\ \A i \in 1..Len(p) : m[i] = p[i]
       /\ \A k \in 1..Cardinality(kept) :
            /\ m[Len(p) + k].url = g[NthOf(kept, k)].url
            /\ m[Len(p) + k].title = g[NthOf(kept, k)].title
       /\ (NoRepeatIn(g) /\ SharedWithFirst(p, g) = {}) => Len(m) = Len(p) + Len(g)
       /\ (NoRepeatIn(g) /\ Cardinality(SharedWithFirst(p, g)) = 1)
            => Len(m) = Len(p) + Len(g) - 1
       /\ (pc = "done" /\ AllDelivered)
            => /\ box.shown = "result"
               /\ TitlesAndUrls(box.view[1].sources) = TitlesAndUrls(m)

MergedSourcesLawWitness ==
  /\ agg # None
  /\ LET p == agg[1].perplexityData.sources
         g == agg[1].groqData.sources
     IN /\ Len(p) = 2 /\ Len(g) = 2
        /\ NoRepeatIn(g)
        /\ Cardinality(SharedWithFirst(p, g)) = 1
        /\ Len(agg[1].combinedSources) = 3

(***************************************************************************)
(* C9: in every report the program produces, parsed from one backend's     *)
(* text or merged from two, no two entries of the source list have the     *)
(* same url unless it is the placeholder.                                  *)
(***************************************************************************)
UniqueUrls(sources) ==
  \A i, j \in 1..Len(sources) :
    (i # j /\ sources[i].url = sources[j].url) => sources[i].url = Placeholder

ReportsHaveUniqueUrls ==
  /\ agg # None =>
       /\ UniqueUrls(agg[1].perplexityData.sources)
       /\ UniqueUrls(agg[1].groqData.sources)
       /\ UniqueUrls(agg[1].combinedSources)
  /\ box.view # None => UniqueUrls(box.view[1].sources)

(***************************************************************************)
(* C10: after the merge every citation stays resolvable: a label cited in  *)
(* the narrative of an input report, which resolves to a source with url u *)
(* in that report, resolves in the final merged source list to a source    *)
(* whose url is u.                                                         *)
(***************************************************************************)
CitationsKept(report, final) ==
  \A label \in CitedLabels(report.factCheck) \cup CitedLabels(report.context) :
    FindSource(report.sources, label) # None =>
      /\ FindSource(final, label) # None
      /\ FindSource(final, label)[1].url = FindSource(report.sources, label)[1].url

CitationsResolvable ==
  (agg # None /\ AllDelivered /\ pc = "done" /\ box.shown = "result") =>
    /\ CitationsKept(agg[1].perplexityData, agg[1].combinedSources)
    /\ CitationsKept(agg[1].groqData, agg[1].combinedSources)
    /\ CitationsKept(agg[1].perplexityData, box.view[1].sources)
    /\ CitationsKept(agg[1].groqData, box.view[1].sources)

(***************************************************************************)
(* What a truth percentage of the answers means: the integer it stands     *)
(* for, or nothing for the sentinel and for text that is no number.  A     *)
(* percentage is parseable when the integer lies in 0..100.                *)
(***************************************************************************)
TruthMeaning(t) ==
  CASE t = Truth80 -> Some(80)
    [] t = Truth55 -> Some(55)
    [] t = Truth60 -> Some(60)
    [] t = Truth150 -> Some(150)
    [] t = TruthMinus5 -> Some(0 - 5)
    [] OTHER -> None

Parseable(t) == TruthMeaning(t) # None /\ TruthMeaning(t)[1] \in 0..100
NonNumeric(t) == TruthMeaning(t) = None
OutOfRange(t) == TruthMeaning(t) # None /\ TruthMeaning(t)[1] \notin 0..100

\* The integer nearest to (a + b) / 2, the half counted upwards.
NearestToMean(a, b) ==
  CHOOSE r \in -200..200 : 2 * r - 1 <= a + b /\ a + b < 2 * r + 1

PercentText(n) == IntToString(n) \o << "%" >>

MergedOf(p, g) == agg # None /\ agg[1].perplexityData.truthPercentage = p
                    /\ agg[1].groqData.truthPercentage = g

(***************************************************************************)
(* C11: when both reports carry a percentage that parses as an integer,    *)
(* the merged truth percentage is the mean of the two integers rounded to  *)
(* the nearest integer, a half rounded up, followed by '%', and the merged *)
(* text carries it in its Truth block.                                     *)
(***************************************************************************)
MeanOfBoth ==
  \A p, g \in OtherTruths \cup {Truth80} :
    (MergedOf(p, g) /\ Parseable(p) /\ Parseable(g)) =>
      LET mean == PercentText(NearestToMean(TruthMeaning(p)[1], TruthMeaning(g)[1]))
      IN /\ agg[1].avgTruth = mean
         /\ Includes(LastSent.data[1], TruthLabel \o << SP >> \o mean \o << NL >>)

\* 80% and 55% give 68%: the mean 67.5 is rounded up.
MeanOfBothWitness ==
  /\ MergedOf(Truth80, Truth55)
  /\ agg[1].avgTruth = << "6", "8", "%" >>
  /\ LastSent.action = "factCheckResult"

(***************************************************************************)
(* C12: when exactly one report carries a parseable percentage and the     *)
(* other carries the sentinel or text that is no number, the merged truth  *)
(* percentage is the parseable one.                                        *)
(***************************************************************************)
OneParseableWins ==
  \A p, g \in OtherTruths \cup {Truth80} :
    /\ (MergedOf(p, g) /\ Parseable(p) /\ NonNumeric(g)) => agg[1].avgTruth = p
    /\ (MergedOf(p, g) /\ NonNumeric(p) /\ Parseable(g)) => agg[1].avgTruth = g

(***************************************************************************)
(* C13: when neither report carries a parseable percentage (each is the    *)
(* sentinel or text that is no number), the merged truth percentage is the *)
(* sentinel 'N/A'.                                                         *)
(***************************************************************************)
NoneParseableIsSentinel ==
  \A p, g \in OtherTruths \cup {Truth80} :
    (MergedOf(p, g) /\ NonNumeric(p) /\ NonNumeric(g)) => agg[1].avgTruth = NA

(***************************************************************************)
(* C14: a percentage outside 0..100 counts as unparseable: paired with a   *)
(* parseable percentage the merged value is the parseable one, and the     *)
(* merged value is the sentinel or a percentage in 0..100.                 *)
(***************************************************************************)
OutOfRangeIsUnparseable ==
  \A p, g \in OtherTruths \cup {Truth80} :
    (MergedOf(p, g) /\ (OutOfRange(p) \/ OutOfRange(g))) =>
      /\ agg[1].avgTruth \in {NA} \cup {PercentText(n) : n \in 0..100}
      /\ Parseable(p) => agg[1].avgTruth = p
      /\ Parseable(g) => agg[1].avgTruth = g

(***************************************************************************)
(* Vocabulary of the parser properties: the blocks of the answer under     *)
(* test, what each block of the pool is, and the report the tab shows.     *)
(***************************************************************************)
Answer == perplexityResult[1]
BlocksOf(text) == Split(text, << NL, NL >>)
Parsed == agg[1].perplexityData
Merged == perplexityResult # None /\ agg # None

\* The answer alone was sent as the result and the content script showed it.
ShownAlone ==
  /\ perplexityResult # None /\ groqResult = None
  /\ delivered = 2 /\ LastSent.action = "factCheckResult"
  /\ LastSent.data = perplexityResult

\* The label a block of the pool starts with ("" for none) and the text
\* behind the label, trimmed.
BlockKind(block) ==
  CASE block = BlockSources -> "sources"
    [] block \in {BlockTruth, BlockTruthColon} -> "truth"
    [] block = BlockFactCheck -> "factCheck"
    [] block \in {BlockContext, BlockEmptyBody} -> "context"
    [] OTHER -> ""

BlockBody(block) ==
  CASE block = BlockFactCheck -> << "f", ":", SP, "g" >>
    [] block = BlockContext -> << "c" >>
    [] block = BlockPlain -> << "more" >>
    [] OTHER -> << >>

FromPool(blocks) == \A k \in 1..Len(blocks) : blocks[k] \in BlockPool

SetMax(S) == CHOOSE x \in S : \A y \in S : y <= x

\* The labelled blocks before position j, and whether the block at j is an
\* unlabelled one that no narrative section takes up.
LabelledBefore(blocks, j) == {k \in 1..(j - 1) : BlockKind(blocks[k]) # ""}
Stray(blocks, j) ==
  /\ BlockKind(blocks[j]) = ""
  /\ \/ LabelledBefore(blocks, j) = {}
     \/ BlockKind(blocks[SetMax(LabelledBefore(blocks, j))]) \in {"sources", "truth"}

RECURSIVE WithoutStray(_, _)
WithoutStray(blocks, j) ==
  IF j > Len(blocks) THEN << >>
  ELSE (IF Stray(blocks, j) THEN << >> ELSE << blocks[j] >>)
         \o WithoutStray(blocks, j + 1)

\* The narrative of one kind: the body of its last labelled block and, each
\* behind one space, the unlabelled blocks that directly follow it.
NarrativeOf(blocks, kind, default) ==
  LET labelled == {k \in 1..Len(blocks) : BlockKind(blocks[k]) = kind}
  IN IF labelled = {} THEN default
     ELSE LET k == SetMax(labelled)
              follow == {j \in (k + 1)..Len(blocks) :
                           \A i \in (k + 1)..j : BlockKind(blocks[i]) = ""}
          IN BlockBody(blocks[k])
               \o Join([i \in 1..Cardinality(follow) |->
                          << SP >> \o BlockBody(blocks[k + i])], << >>)

(***************************************************************************)
(* C15: the parser walks the blank-line-separated blocks with a current    *)
(* section.  A labelled block switches the section, in any order; an       *)
(* unlabelled block is appended, behind one space, to the fact check or    *)
(* the context when that is current; an unlabelled block before any label  *)
(* or while Sources or Truth is current changes no field of the report.    *)
(***************************************************************************)
BlockWalk ==
  (perplexityResult # None /\ FromPool(BlocksOf(Answer))) =>
    LET blocks == BlocksOf(Answer)
        factCheck == NarrativeOf(blocks, "factCheck", NoFactCheck)
        context == NarrativeOf(blocks, "context", NoContext)
    IN /\ Merged =>
            /\ Parsed.factCheck = factCheck
            /\ Parsed.context = context
            /\ Parsed = ParseBlocks(JoinBlocks(WithoutStray(blocks, 1)))
       /\ ShownAlone =>
            /\ box.shown = "result"
            /\ box.view[1].factCheck = << << FactCheckLabel, factCheck >> >>
            /\ box.view[1].context = << << ContextLabel, context >> >>

\* A stray block first, the fact check, and a block that continues it.
BlockWalkWitness ==
  /\ Merged
  /\ Answer = JoinBlocks(<< BlockPlain, BlockFactCheck, BlockPlain >>)
  /\ Parsed.factCheck = << "f", ":", SP, "g", SP, "more" >>
  /\ Parsed.context = NoContext

\* What the sections of a subset report hold.
SectionSources ==
  << [index |-> << "1" >>, title |-> << "A" >>, url |-> << "u1" >>],
     [index |-> << "2" >>, title |-> << "C" >>, url |-> << "#" >>] >>

SectionsOf(present) ==
  [truthPercentage |-> IF "truth" \in present THEN Truth80 ELSE << "N/A" >>,
   factCheck |-> IF "factCheck" \in present THEN FactCheckText(1)
                 ELSE << "No fact check provided." >>,
   context |-> IF "context" \in present THEN ContextText(1)
               ELSE << "No context provided." >>,
   sources |-> IF "sources" \in present THEN SectionSources ELSE << >>]

TruthBody(block) ==
  IF block = BlockTruthColon THEN << "8", "0", "%", ":", SP, "likely" >>
  ELSE << "8", "0", "%" >>

AllSections == {"sources", "truth", "factCheck", "context"}

(***************************************************************************)
(* C17: the parsed truthPercentage is the whole text of the Truth block    *)
(* behind its first colon, trimmed, also when that text holds a colon, and *)
(* a well-formed report with all four sections gives back all four fields. *)
(***************************************************************************)
TruthVerbatim ==
  /\ (perplexityResult # None /\ FromPool(BlocksOf(Answer))) =>
       LET blocks == BlocksOf(Answer)
           truths == {k \in 1..Len(blocks) : BlockKind(blocks[k]) = "truth"}
       IN truths # {} =>
            /\ Merged => Parsed.truthPercentage = TruthBody(blocks[SetMax(truths)])
            /\ ShownAlone =>
                 /\ box.shown = "result"
                 /\ box.view[1].truthPercentage = TruthBody(blocks[SetMax(truths)])
  /\ (Merged /\ Answer = SubsetReport(AllSections, SectionNames)) =>
       Parsed = SectionsOf(AllSections)

\* The source each line of the pool stands for when only a line that
\* begins with '<index>. ' counts, and when the pattern may begin anywhere.
LineSource(line) ==
  CASE line = LineLinked ->
         << [index |-> << "1" >>, title |-> << "A" >>, url |-> << "u1" >>] >>
    [] line = LinePlain ->
         << [index |-> << "7" >>, title |-> << "C" >>, url |-> << "#" >>] >>
    [] line = LineInside ->
         << [index |-> << "5" >>, title |-> << "B" >>, url |-> << "u2" >>] >>
    [] OTHER -> << >>

LineSourceAnywhere(line) ==
  IF line = LinePrefixed
  THEN << [index |-> << "3" >>, title |-> << "B" >>, url |-> << "u2" >>] >>
  ELSE LineSource(line)

RECURSIVE SourcesStrict(_)
SourcesStrict(lines) ==
  IF lines = << >> THEN << >>
  ELSE LineSource(Head(lines)) \o SourcesStrict(Tail(lines))

RECURSIVE SourcesAnywhere(_)
SourcesAnywhere(lines) ==
  IF lines = << >> THEN << >>
  ELSE LineSourceAnywhere(Head(lines)) \o SourcesAnywhere(Tail(lines))

(***************************************************************************)
(* C18: the Sources block gives one source for each line behind the label  *)
(* line that has the form '<index>. <content>', in line order, with the    *)
(* line's index as label, the title and url of a [title](url) fragment or   *)
(* else the whole content and '#'; every other line adds no source.        *)
(***************************************************************************)
SourceLinesStrict ==
  \A lines \in LineSeqs :
    (perplexityResult # None /\ Answer = SourcesReport(lines)) =>
      /\ Merged => Parsed.sources = SourcesStrict(lines)
      /\ ShownAlone => box.shown = "result" /\ box.view[1].sources = SourcesStrict(lines)

(***************************************************************************)
(* C18, amended: a line gives a source when '<index>. <content>' occurs    *)
(* anywhere in it; what stands before the index is ignored.  The rest is   *)
(* as stated.                                                              *)
(***************************************************************************)
SourceLinesAnywhere ==
  \A lines \in LineSeqs :
    (perplexityResult # None /\ Answer = SourcesReport(lines)) =>
      /\ Merged => Parsed.sources = SourcesAnywhere(lines)
      /\ ShownAlone =>
           box.shown = "result" /\ box.view[1].sources = SourcesAnywhere(lines)

\* A line with text before its index between a plain line and nothing else.
SourceLinesAnywhereWitness ==
  /\ Merged
  /\ Answer = SourcesReport(<< LinePlain, LinePrefixed >>)
  /\ Len(Parsed.sources) = 2
  /\ Parsed.sources[2].index = << "3" >>
  /\ Parsed.sources[2].url = << "u2" >>

(***************************************************************************)
(* C20: a citation whose label no source has is left exactly as it stands  *)
(* in the text, so with no sources every narrative is shown unchanged,     *)
(* groups of several labels included; a citation whose label a source has  *)
(* becomes a link to that source's url, labelled with the cited label.     *)
(***************************************************************************)
UnresolvedMarkersKept ==
  \A narrative \in Narratives :
    /\ (ShownAlone /\ Answer = CitingReport(<< >>, narrative)) =>
         /\ box.shown = "result"
         /\ box.view[1].factCheck = << << FactCheckLabel, narrative >> >>
    /\ (ShownAlone /\ Answer = CitingReport(<< EntryA >>, narrative)
          /\ narrative = << "[", "9", "]" >>) =>
         box.view[1].factCheck = << << FactCheckLabel, narrative >> >>
    /\ (ShownAlone /\ Answer = CitingReport(<< EntryA >>, narrative)
          /\ narrative = << "[", "1", "]" >>) =>
         box.view[1].factCheck =
           << << FactCheckLabel,
                 << "<a href=\"", "u1", "\" target=\"_blank\">", "[", "1", "]", "</a>" >> >> >>

\* The report with every field at its default, as the result box shows it.
DefaultView ==
  [truthPercentage |-> << "N/A" >>,
   factCheck |-> << << FactCheckLabel, << "No fact check provided." >> >> >>,
   context |-> << << ContextLabel, << "No context provided." >> >> >>,
   sources |-> << >>]

ResultHandled ==
  /\ delivered = Len(sent)
  /\ sent # << >>
  /\ LastSent.action = "factCheckResult"

(***************************************************************************)
(* C19: parsing never throws: whatever the backend answered (an empty      *)
(* text, text without labels, a label with an empty body, a label twice,   *)
(* no text content at all), the content script gets a report from the      *)
(* parser and shows it, with every field at its default when the answer    *)
(* is empty, has no label or has no text content.                          *)
(***************************************************************************)
ParsingNeverRaises ==
  ResultHandled =>
    /\ box.shown = "result"
    /\ box.view # None
    /\ LastSent.data \in {None, Some(<< >>), Some(<< "sorry" >>)} =>
         box.view[1] = DefaultView

\* The narratives that are one citation group, with the labels cited in
\* order, and the narratives whose brackets are no citation group.
GroupNarratives ==
  {<< "[", "1", "]" >>, << "[", "1", ",", SP, "2", "]" >>, << "[", "2", ",", "1", "]" >>,
   << "[", "9", "]" >>, << "[", "1", ",", SP, "9", "]" >>}

GroupLabels(narrative) ==
  CASE narrative = << "[", "1", "]" >> -> << "1" >>
    [] narrative = << "[", "1", ",", SP, "2", "]" >> -> << "1", "2" >>
    [] narrative = << "[", "2", ",", "1", "]" >> -> << "2", "1" >>
    [] narrative = << "[", "9", "]" >> -> << "9" >>
    [] narrative = << "[", "1", ",", SP, "9", "]" >> -> << "1", "9" >>

NonCitations ==
  {<< "[", "abc", "]" >>, << "[", "1", "a", "]" >>, << "[", "1", ",", SP, "x", "]" >>}

SourceLists == {<< >>, << EntryA >>, << EntryA, EntryB >>}

\* What one cited label becomes: entries are labelled 1 and 2 and have the
\* urls u1 and u2.
ItemOf(entries, label) ==
  IF label = "1" /\ Len(entries) >= 1
  THEN << "<a href=\"", "u1", "\" target=\"_blank\">", "[", "1", "]", "</a>" >>
  ELSE IF label = "2" /\ Len(entries) >= 2
  THEN << "<a href=\"", "u2", "\" target=\"_blank\">", "[", "2", "]", "</a>" >>
  ELSE << "[", label, "]" >>

ShownFactCheck == box.view[1].factCheck

(***************************************************************************)
(* C21: in a citation group with several labels each label is resolved on  *)
(* its own, a label without source staying a bracketed label while the     *)
(* others are linked, and the results are joined with ', ' in the order of *)
(* the group, one item for each cited label.                               *)
(***************************************************************************)
GroupsResolved ==
  \A entries \in SourceLists : \A narrative \in GroupNarratives :
    (ShownAlone /\ Answer = CitingReport(entries, narrative)) =>
      LET labels == GroupLabels(narrative)
      IN /\ box.shown = "result"
         /\ ShownFactCheck =
              << << FactCheckLabel,
                    Join([k \in 1..Len(labels) |-> ItemOf(entries, labels[k])],
                         << ",", SP >>) >> >>

\* [1, 9] with a source 1 only: the first label linked, the second kept.
GroupsResolvedWitness ==
  /\ ShownAlone
  /\ Answer = CitingReport(<< EntryA >>, << "[", "1", ",", SP, "9", "]" >>)
  /\ ShownFactCheck =
       << << FactCheckLabel,
             << "<a href=\"", "u1", "\" target=\"_blank\">", "[", "1", "]", "</a>",
                ",", SP, "[", "9", "]" >> >> >>

(***************************************************************************)
(* C22: bracketed text that is no citation group (something other than     *)
(* digits, commas and white space stands between the brackets) is shown    *)
(* unchanged, whatever the sources are.                                    *)
(***************************************************************************)
NonCitationsUntouched ==
  \A entries \in SourceLists : \A narrative \in NonCitations :
    (ShownAlone /\ Answer = CitingReport(entries, narrative)) =>
      /\ box.shown = "result"
      /\ ShownFactCheck = << << FactCheckLabel, narrative >> >>

\* [1, x] with a source labelled 1.
NonCitationsUntouchedWitness ==
  /\ ShownAlone
  /\ Answer = CitingReport(<< EntryA >>, << "[", "1", ",", SP, "x", "]" >>)
  /\ ShownFactCheck = << << FactCheckLabel, << "[", "1", ",", SP, "x", "]" >> >> >>

Started == sent # << >>
Ended == SentActions \cap Terminal # {}

(***************************************************************************)
(* C23: a backend that never answers cannot stall a request for ever:      *)
(* every request that was started (showLoading sent) ends with a result    *)
(* or an error message.                                                    *)
(***************************************************************************)
EveryRequestEnds == Started ~> Ended

(***************************************************************************)
(* C24: there is no retry and the fan-out is bounded: within a request     *)
(* each endpoint (Perplexity, Toolhouse search, Groq) is called at most    *)
(* once, also after that call or a call of the other backend has failed,   *)
(* and the Groq call is the one chained call behind a Toolhouse search     *)
(* that returned.                                                          *)
(***************************************************************************)
AtMostOneCall ==
  /\ calls.perplexity <= 1 /\ calls.toolhouse <= 1 /\ calls.groq <= 1
  /\ calls.perplexity = 1 <=> perplexityCall # "none"
  /\ calls.toolhouse = 1 <=> toolhouseCall # "none"
  /\ calls.groq = 1 <=> groqCall # "none"
  /\ calls.groq = 1 => toolhouseCall \in {"results", "noResults"}

\* Both backends have failed, the request is over, one call each was made.
AtMostOneCallWitness ==
  /\ pc = "done"
  /\ perplexityCall \in PerplexityFailures
  /\ toolhouseCall \in ToolhouseFailures
  /\ calls = [perplexity |-> 1, toolhouse |-> 1, groq |-> 0]

(***************************************************************************)
(* C25: the merge never drops a source only because its url is the         *)
(* placeholder '#': every source of the second report without extracted    *)
(* url is in the merged list, also when the list holds another             *)
(* placeholder source already.                                             *)
(***************************************************************************)
PlaceholdersKept ==
  agg # None =>
    \A j \in 1..Len(agg[1].groqData.sources) :
      LET source == agg[1].groqData.sources[j]
      IN source.url = << "#" >> =>
           \E i \in 1..Len(agg[1].combinedSources) :
             /\ agg[1].combinedSources[i].title = source.title
             /\ agg[1].combinedSources[i].url = << "#" >>

TerminalsSent == {i \in 1..Len(sent) : sent[i].action \in Terminal}

(***************************************************************************)
(* C26: for a context-menu request showLoading is sent first and, once the *)
(* storage read has completed and every backend call has settled, exactly  *)
(* one terminal message (factCheckResult or factCheckError) behind it;     *)
(* when the content script has handled it the box shows a result or an     *)
(* error and no longer the loader, also when the answer of the backend     *)
(* has no content field.                                                   *)
(***************************************************************************)
OneTerminalThenShown ==
  /\ sent # << >> => sent[1].action = "showLoading"
  /\ Cardinality(TerminalsSent) <= 1
  /\ \A i \in 2..Len(sent) : sent[i].action \in Terminal
  /\ pc = "done" => Cardinality(TerminalsSent) = 1
  /\ (pc = "done" /\ AllDelivered) => box.shown \in {"result", "error"}

\* What the box shows when the message is the last one handled.
BoxAfter(message) ==
  IF message.action = "factCheckResult"
  THEN displayResult(displayLoader(box), message.data)
  ELSE displayError(displayLoader(box), message.data[1])

BothOver == pc = "done" /\ second.pc = "done" /\ AllDelivered

(***************************************************************************)
(* C27: when two requests for the same tab overlap, then in every          *)
(* interleaving of the answers the box finally shows the outcome of the    *)
(* request that was started last; the earlier request, answered later,     *)
(* does not overwrite it.                                                  *)
(***************************************************************************)
LastStartedWins ==
  BothOver => box = BoxAfter(second.message[1])

ExtractionFailed ==
  \E entry \in log : entry.tag = "Error fetching page content:"

(***************************************************************************)
(* C28: a failure to read the page text is not fatal: the backend query is *)
(* still issued, with an empty page context, and the request ends as it    *)
(* would have ended with an empty page, never with a factCheckError that   *)
(* the extraction failure caused.                                          *)
(***************************************************************************)
ExtractionFailureNotFatal ==
  ExtractionFailed =>
    /\ pageContent = Some(<< >>)
    /\ pc \in {"awaitQuery", "done"}
    /\ calls.perplexity = 1
    /\ perplexityCall # "none"
    /\ pc = "done" =>
         /\ LastSent = IF queryAI([kind |-> perplexityCall, content |-> perplexityResult]).ok
                       THEN Message("factCheckResult", perplexityResult)
                       ELSE Message("factCheckError", Some(rejection))
         /\ LastSent.action = "factCheckError" => perplexityCall \in PerplexityFailures

\* The extraction failed, the endpoint answered, the result was sent.
ExtractionFailureNotFatalWitness ==
  /\ ExtractionFailed
  /\ pc = "done"
  /\ LastSent.action = "factCheckResult"
  /\ LastSent.data = Some(Report(<< EntryA >>, 1, Truth80))

PastInjection(position) ==
  position \in {"storageGet", "getPageContent", "awaitQuery", "done"}

Positions == << pc, second.pc >>

HowMany(P(_)) == Cardinality({i \in 1..2 : P(Positions[i])})

IsDone(position) == position = "done"

Queried(position) == position \in {"awaitQuery", "done"}

InjectionOver(position) == position \in {"idle", "injectFailed"}

SentOf(actions) == Cardinality({i \in 1..Len(sent) : sent[i].action \in actions})

SendsLoading ==
  /\ Len(sent') = Len(sent) + 1
  /\ sent'[Len(sent')].action = "showLoading"

\* The state part: messages and calls come only from requests that got
\* past the injection; one listener and at most one container.
PresentBeforeStartState ==
  /\ SentOf({"showLoading"}) = HowMany(PastInjection)
  /\ SentOf({"factCheckResult", "factCheckError"}) = HowMany(IsDone)
  /\ Len(sent) = HowMany(PastInjection) + HowMany(IsDone)
  /\ sent # << >> => injected
  /\ calls.perplexity = IF storage.apiKey THEN HowMany(Queried) ELSE 0
  /\ calls.toolhouse = 0 /\ calls.groq = 0
  /\ (InjectionOver(pc) /\ InjectionOver(second.pc)) =>
        /\ sent = << >>
        /\ calls = [perplexity |-> 0, toolhouse |-> 0, groq |-> 0]
  /\ page.listeners = IF injected THEN 1 ELSE 0
  /\ page.containers <= 1
  /\ page.containers = IF delivered > 0 THEN 1 ELSE 0

\* The step part: showLoading is sent by the callback that got the positive
\* reply or by the callback of a successful injection.
PresentBeforeStartStep ==
  SendsLoading =>
    \/ pc = "checkInjection" /\ injected /\ pc' = "storageGet"
    \/ pc = "injecting" /\ injected' /\ page'.runs = page.runs + 1 /\ pc' = "storageGet"
    \/ second.pc = "checkInjection" /\ injected /\ second'.pc = "storageGet"
    \/ /\ second.pc = "injecting" /\ injected'
       /\ page'.runs = page.runs + 1 /\ second'.pc = "storageGet"

(***************************************************************************)
(* C29: a fact check is started for a tab only after the content script is *)
(* known to be there: showLoading is sent only after a positive            *)
(* checkInjection reply or a successful injection; when the injection      *)
(* fails, no showLoading, result or error message is sent and no backend   *)
(* call is made; repeated injections of the content script leave exactly   *)
(* one message listener and at most one result container on the page.      *)
(***************************************************************************)
PresentBeforeStart ==
  /\ []PresentBeforeStartState
  /\ [][PresentBeforeStartStep]_vars

\* content.js ran twice in the tab and a message was displayed.
PresentBeforeStartWitness ==
  /\ page.runs = 2
  /\ page.listeners = 1
  /\ page.containers = 1
  /\ box.container
  /\ delivered = Len(sent)
  /\ pc = "done"
  /\ second.pc = "done"

PopupSubmitted ==
  /\ popup.pc = "storageGet"
  /\ popup.tabs = 1
  /\ PerplexityUsable(storage) \/ GroqUsable(storage)

SecondarySent == \E i \in 1..Len(sent) : sent[i].action = "showSecondaryResult"

QueryReturned == \/ perplexityCall \notin {"none", "pending"}
                 \/ groqCall \notin {"none", "pending"}

====
